---- MODULE Spec2Model ----
(***************************************************************************)
(* A model of the PDF engine of pdf-prodigy-backend:                       *)
(*   PDFService.split_pdf, PDFService.merge_pdfs and PDFService.edit_pdf   *)
(*   (src/app/services/pdf_service.py), and OCRService's text extraction   *)
(*   (src/services/ocr_service.py).                                        *)
(*                                                                         *)
(* A document is a sequence of pages.  A page records where it comes from  *)
(* (input document src, 1-based page pno of that input) and the elements   *)
(* drawn on it since it was opened (content).  A Python dict is a TLA+     *)
(* function whose DOMAIN is the set of keys present, so that an absent key *)
(* and dict.get's default are modelled as the code has them.  Strings the  *)
(* code parses are sequences of one-character strings.  The session        *)
(* directory is a function from file names to the documents saved there.   *)
(* A call into PyMuPDF that the code guards with try/except may raise: the *)
(* ...Raises actions are those outcomes.                                   *)
(***************************************************************************)
EXTENDS Integers, Sequences, FiniteSets, TLC

VARIABLES
    pc,             \* position of the running operation in its code
    split_config,   \* split_pdf's split_config dict
    merge_config,   \* merge_pdfs's merge_config dict
    operation_data, \* edit_pdf's operation_data dict
    input_files,    \* the documents stored at the input path(s)
    page,           \* edit_pdf's loaded page (0-based index in doc)
    doc,            \* the opened source document (its pages)
    total_pages,    \* split_pdf / merge_pdfs local
    output_files,   \* split_pdf's list of written paths
    merged_doc,     \* merge_pdfs's output document (its pages)
    toc,            \* table-of-contents entries set on merged_doc
    i,              \* loop index of the running loop (0-based, as enumerate)
    open_docs,      \* the document handles opened and not yet closed
    session_dir,    \* files of temp_dir / session_id : name -> saved pages
    label_page_num, \* loop index of _add_page_numbers (0-based)
    result,         \* the record the operation returned
    text_arg,       \* the string handed to _clean_text / _is_readable_text
    pages_data,     \* extract_text_from_pdf's list of page records
    page_num_arg,   \* extract_text_with_positions's page_num (0-based)
    request,        \* the HTTP request an endpoint is handling
    response,       \* the HTTP response the endpoint gave
    status_info,    \* what get_processing_status returned when last asked
    upload_dir      \* files of the standalone backend's UPLOAD_DIR

vars == <<pc, split_config, merge_config, operation_data, input_files, page, doc,
          total_pages, output_files, merged_doc, toc, i, open_docs, session_dir,
          label_page_num, result, text_arg, pages_data, page_num_arg,
          request, response, status_info, upload_dir>>

-----------------------------------------------------------------------------
(* Bounds of the model *)

\* largest page count of an input document
MaxPages == 3
\* longest list of requested pages / ranges, and most merge inputs
MaxReq == 2

-----------------------------------------------------------------------------
(* Python helpers *)

\* dict.get(key, default)
DictGet(d, key, default) == IF key \in DOMAIN d THEN d[key] ELSE default

\* d with d[key] = value added or replaced
DictPut(d, key, value) ==
    [k \in DOMAIN d \cup {key} |-> IF k = key THEN value ELSE d[k]]

\* min(a, b)
Min(a, b) == IF a <= b THEN a ELSE b

\* the empty dict / an empty directory
EmptyDict == [k \in {} |-> 0]

Digits == {"0", "1", "2", "3", "4", "5", "6", "7", "8", "9"}

DigitVal(c) ==
    CASE c = "0" -> 0 [] c = "1" -> 1 [] c = "2" -> 2 [] c = "3" -> 3
      [] c = "4" -> 4 [] c = "5" -> 5 [] c = "6" -> 6 [] c = "7" -> 7
      [] c = "8" -> 8 [] c = "9" -> 9

\* str.split(sep): the pieces of s between occurrences of the character sep
RECURSIVE StrSplit(_, _)
StrSplit(s, sep) ==
    IF \A k \in 1..Len(s) : s[k] # sep
    THEN <<s>>
    ELSE LET k == CHOOSE j \in 1..Len(s) :
                      s[j] = sep /\ \A h \in 1..(j - 1) : s[h] # sep
         IN  <<SubSeq(s, 1, k - 1)>> \o StrSplit(SubSeq(s, k + 1, Len(s)), sep)

\* int(s) raises ValueError unless s is a non-empty run of digits
\* (of the characters the model's strings are made of)
IntOk(s) == Len(s) >= 1 /\ \A k \in 1..Len(s) : s[k] \in Digits

\* int(s) for a run of digits
RECURSIVE IntOf(_)
IntOf(s) ==
    IF Len(s) = 0 THEN 0
    ELSE 10 * IntOf(SubSeq(s, 1, Len(s) - 1)) + DigitVal(s[Len(s)])

\* start_page, end_page = map(int, page_range.split("-")) does not raise:
\* exactly two pieces, each accepted by int
RangeParses(page_range) ==
    LET parts == StrSplit(page_range, "-")
    IN  Len(parts) = 2 /\ IntOk(parts[1]) /\ IntOk(parts[2])

\* the pair (start_page, end_page) of a range string that parses
RangeOf(page_range) ==
    LET parts == StrSplit(page_range, "-")
    IN  <<IntOf(parts[1]), IntOf(parts[2])>>

-----------------------------------------------------------------------------
(* Documents and files *)

\* a page of input document d, as stored in its file
Page(d, k) == [src |-> d, pno |-> k, content |-> <<>>]

\* input document d with n pages
SourceDoc(d, n) == [k \in 1..n |-> Page(d, k)]

\* fitz.open(): a fresh document without pages
NewDoc == <<>>

\* target.insert_pdf(source, from_page, to_page): the pages from_page..to_page
\* (0-based, inclusive) of source appended to target
InsertPdf(target, source, from_page, to_page) ==
    target \o SubSeq(source, from_page + 1, to_page + 1)

\* names of the files the operations write into the session directory
PageFile(page_num) == [kind |-> "page", a |-> page_num, b |-> 0]
RangeFile(start_page, end_page) == [kind |-> "pages", a |-> start_page, b |-> end_page]
PartFile(n) == [kind |-> "part", a |-> n, b |-> 0]
MergedFile == [kind |-> "merged", a |-> 0, b |-> 0]
EditedFile == [kind |-> "edited", a |-> 0, b |-> 0]

\* document.save(path): the file at path now holds the document's pages
Save(dir, path, document) == DictPut(dir, path, document)

\* faulty variant of Failure: the record carries no error string
Failure_NoError(error) == [success |-> FALSE]

\* the failure record of the except branches
Failure(error) == [success |-> FALSE, error |-> error]

\* no record returned yet
NoResult == [pending |-> TRUE]

-----------------------------------------------------------------------------
(* Requests *)

\* sequences over S of length at most n
SeqsUpTo(S, n) == UNION {[1..k -> S] : k \in 0..n}

\* requested page numbers: in range, just outside, zero and negative
PageNumbers == (0 - 1)..(MaxPages + 1)

\* page_ranges entries as the controller passes them, character by character:
\* ranges inside the document, reversed, starting at zero, ending past the
\* last page, with a negative bound, and strings that are no range
RangeStrings ==
    { <<"1", "-", "1">>, <<"1", "-", "2">>, <<"2", "-", "3">>,
      <<"0", "2", "-", "3">>, <<"4", "-", "4">>,
      <<"2", "-", "1">>, <<"0", "-", "2">>, <<"3", "-", "1", "0">>,
      <<"-", "1", "-", "2">>, <<"1", "-", "-", "2">>,
      <<"1", "-", "2", "-", "3">>, <<"1", "-">>, <<"2">>, <<>>,
      <<"x", "-", "2">> }

\* the split_config dicts: the split_type and, present or not, the field of
\* that variant (pdf_operations_controller.split_pdf adds no other field)
SplitConfigs ==
    {[split_type |-> t] : t \in {"pages", "range", "size", "bookmark"}}
    \cup {[split_type |-> "pages", pages |-> p] :
              p \in SeqsUpTo(PageNumbers, MaxReq)}
    \cup {[split_type |-> "range", page_ranges |-> r] :
              r \in SeqsUpTo(RangeStrings, MaxReq)}
    \cup {[split_type |-> "size", max_pages_per_file |-> m] :
              m \in (0 - 1)..(MaxPages + 1)}

-----------------------------------------------------------------------------
(* PDFService.split_pdf *)

\* faulty variant of PageInRange: the last page is taken to be out of range
PageInRange_Strict(page_num, total) == 1 <= page_num /\ page_num < total

\* if 1 <= page_num <= total_pages
PageInRange(page_num, total) == 1 <= page_num /\ page_num <= total

\* faulty variant of RangeInBounds: start_page <= end_page is not tested
RangeInBounds_NoOrder(start_page, end_page, total) ==
    1 <= start_page /\ end_page <= total

\* if 1 <= start_page <= end_page <= total_pages
RangeInBounds(start_page, end_page, total) ==
    1 <= start_page /\ start_page <= end_page /\ end_page <= total

\* max_pages = split_config.get("max_pages_per_file", 10)
DefaultMaxPages == 10
MaxPagesOf(config) == DictGet(config, "max_pages_per_file", DefaultMaxPages)

\* faulty variant of ChunkEnd: the chunk ends one page late
ChunkEnd_OneMore(start, max_pages, total) == Min(start + max_pages, total - 1)

\* end_page = min(i + max_pages - 1, total_pages - 1)
ChunkEnd(start, max_pages, total) == Min(start + max_pages - 1, total - 1)

\* f"part_{i//max_pages + 1}.pdf"
PartNumber(start, max_pages) == (start \div max_pages) + 1

\* the success record of split_pdf
SplitSuccess ==
    [success |-> TRUE,
     file_id |-> "session_id",
     file_count |-> Len(output_files),
     output_files |-> output_files,
     processing_time |-> 0,
     metadata |-> [split_type |-> split_config["split_type"],
                   original_pages |-> total_pages,
                   output_files |-> Len(output_files)]]

\* the list the running loop iterates
SplitItems ==
    CASE split_config["split_type"] = "pages" -> DictGet(split_config, "pages", <<>>)
      [] split_config["split_type"] = "range" -> DictGet(split_config, "page_ranges", <<>>)
      [] OTHER -> <<>>

\* the running loop has no iteration left
SplitLoopDone ==
    CASE split_config["split_type"] \in {"pages", "range"} -> i >= Len(SplitItems)
      [] split_config["split_type"] = "size" ->
            MaxPagesOf(split_config) # 0
            /\ (MaxPagesOf(split_config) < 0 \/ i >= total_pages)
      [] OTHER -> TRUE

\* an exception reaches split_pdf's except branch: nothing is closed there
SplitFails(error, handles) ==
    /\ pc' = "done"
    /\ result' = Failure(error)
    /\ open_docs' = handles
    /\ UNCHANGED <<split_config, merge_config, operation_data, input_files, page, doc,
                   total_pages, output_files, merged_doc, toc, i, session_dir,
                   label_page_num,
                   text_arg, pages_data, page_num_arg,
                   request, response, status_info, upload_dir>>

\* one partition: new_doc = fitz.open(); new_doc.insert_pdf(doc, from, to);
\* new_doc.save(output_file); new_doc.close(); output_files.append(output_file)
SplitWrite(output_file, from_page, to_page, next_i) ==
    /\ session_dir' = Save(session_dir, output_file,
                           InsertPdf(NewDoc, doc, from_page, to_page))
    /\ output_files' = Append(output_files, output_file)
    /\ i' = next_i
    /\ UNCHANGED <<pc, split_config, merge_config, operation_data, input_files, page,
                   doc, total_pages, merged_doc, toc, open_docs, label_page_num,
                   result,
                   text_arg, pages_data, page_num_arg,
                   request, response, status_info, upload_dir>>

\* the iteration writes nothing
SplitSkip(next_i) ==
    /\ i' = next_i
    /\ UNCHANGED <<pc, split_config, merge_config, operation_data, input_files, page,
                   doc, total_pages, output_files, merged_doc, toc, open_docs,
                   session_dir, label_page_num, result,
                   text_arg, pages_data, page_num_arg,
                   request, response, status_info, upload_dir>>

\* doc = fitz.open(input_file); total_pages = len(doc); output_files = []
SplitOpen ==
    /\ pc = "split_start"
    /\ doc' = input_files[1]
    /\ total_pages' = Len(input_files[1])
    /\ output_files' = <<>>
    /\ i' = 0
    /\ open_docs' = open_docs \cup {"doc"}
    /\ pc' = "split_loop"
    /\ UNCHANGED <<split_config, merge_config, operation_data, input_files, page,
                   merged_doc, toc, session_dir, label_page_num, result,
                   text_arg, pages_data, page_num_arg,
                   request, response, status_info, upload_dir>>

\* fitz.open(input_file) raises
SplitOpenRaises ==
    /\ pc = "split_start"
    /\ SplitFails("ResourceIO", open_docs)

\* one iteration of: for i, page_num in enumerate(pages)
SplitPagesStep ==
    /\ pc = "split_loop"
    /\ split_config["split_type"] = "pages"
    /\ i < Len(SplitItems)
    /\ LET page_num == SplitItems[i + 1]
       IN  IF PageInRange(page_num, total_pages)
           THEN SplitWrite(PageFile(page_num), page_num - 1, page_num - 1, i + 1)
           ELSE SplitSkip(i + 1)

\* one iteration of: for i, page_range in enumerate(ranges)
SplitRangeStep ==
    /\ pc = "split_loop"
    /\ split_config["split_type"] = "range"
    /\ i < Len(SplitItems)
    /\ LET page_range == SplitItems[i + 1]
       IN  IF ~RangeParses(page_range)
           THEN SplitFails("ValueError", open_docs)
           ELSE LET start_page == RangeOf(page_range)[1]
                    end_page == RangeOf(page_range)[2]
                IN  IF RangeInBounds(start_page, end_page, total_pages)
                    THEN SplitWrite(RangeFile(start_page, end_page),
                                    start_page - 1, end_page - 1, i + 1)
                    ELSE SplitSkip(i + 1)

\* one iteration of: for i in range(0, total_pages, max_pages)
SplitSizeStep ==
    /\ pc = "split_loop"
    /\ split_config["split_type"] = "size"
    /\ LET max_pages == MaxPagesOf(split_config)
       IN  IF max_pages = 0
           THEN SplitFails("ValueError", open_docs)   \* range() arg 3 must not be zero
           ELSE /\ max_pages > 0
                /\ i < total_pages
                /\ SplitWrite(PartFile(PartNumber(i, max_pages)),
                              i, ChunkEnd(i, max_pages, total_pages),
                              i + max_pages)

\* the next iteration reaches new_doc.save(...)
SplitWrites ==
    CASE split_config["split_type"] = "pages" ->
            /\ i < Len(SplitItems)
            /\ PageInRange(SplitItems[i + 1], total_pages)
      [] split_config["split_type"] = "range" ->
            /\ i < Len(SplitItems)
            /\ RangeParses(SplitItems[i + 1])
            /\ RangeInBounds(RangeOf(SplitItems[i + 1])[1],
                             RangeOf(SplitItems[i + 1])[2], total_pages)
      [] split_config["split_type"] = "size" ->
            MaxPagesOf(split_config) > 0 /\ i < total_pages
      [] OTHER -> FALSE

\* new_doc.save(str(output_file)) raises: new_doc stays open, no file is kept
SplitSaveRaises ==
    /\ pc = "split_loop"
    /\ SplitWrites
    /\ SplitFails("ResourceIO", open_docs \cup {"new_doc"})

\* doc.close(); return {"success": True, ...}
SplitReturn ==
    /\ pc = "split_loop"
    /\ SplitLoopDone
    /\ open_docs' = open_docs \ {"doc"}
    /\ result' = SplitSuccess
    /\ pc' = "done"
    /\ UNCHANGED <<split_config, merge_config, operation_data, input_files, page, doc,
                   total_pages, output_files, merged_doc, toc, i, session_dir,
                   label_page_num,
                   text_arg, pages_data, page_num_arg,
                   request, response, status_info, upload_dir>>

InitSplit ==
    /\ pc = "split_start"
    /\ split_config \in SplitConfigs
    /\ merge_config = EmptyDict
    /\ operation_data = EmptyDict
    /\ \E n \in 0..MaxPages : input_files = <<SourceDoc(1, n)>>
    /\ page = 0
    /\ doc = <<>>
    /\ total_pages = 0
    /\ output_files = <<>>
    /\ merged_doc = <<>>
    /\ toc = <<>>
    /\ i = 0
    /\ open_docs = {}
    /\ session_dir = EmptyDict
    /\ label_page_num = 0
    /\ result = NoResult
    /\ text_arg = <<>>
    /\ pages_data = <<>>
    /\ page_num_arg = 0
    /\ request = EmptyDict
    /\ response = NoResult
    /\ status_info = NoResult
    /\ upload_dir = EmptyDict

NextSplit ==
    \/ SplitOpen
    \/ SplitOpenRaises
    \/ SplitPagesStep
    \/ SplitRangeStep
    \/ SplitSizeStep
    \/ SplitSaveRaises
    \/ SplitReturn

SpecSplit == InitSplit /\ [][NextSplit]_vars

-----------------------------------------------------------------------------
(* PDFService.merge_pdfs *)

\* the merge_config dicts: bookmark_structure and page_numbering, each
\* true, false or absent
MergeConfigs ==
    {EmptyDict}
    \cup [bookmark_structure : BOOLEAN]
    \cup [page_numbering : BOOLEAN]
    \cup [bookmark_structure : BOOLEAN, page_numbering : BOOLEAN]

\* the lists of input documents: up to MaxReq documents of 0..MaxPages pages
MergeInputs ==
    UNION {{[d \in 1..n |-> SourceDoc(d, counts[d])] : counts \in [1..n -> 0..MaxPages]}
           : n \in 0..MaxReq}

\* faulty variant of MergeToPage: the last page of each input is not copied
MergeToPage_DropLast(page_count) == page_count - 2

\* to_page=page_count-1
MergeToPage(page_count) == page_count - 1

\* faulty variant of BookmarkPage: the offset after the input, not before it
BookmarkPage_After(total, page_count) == total

\* page=total_pages - page_count, a 0-based page index like from_page/to_page
BookmarkPage(total, page_count) == total - page_count

\* set_toc_item(level=1, title=f"Document {i+1}", page=...): title holds i+1
Bookmark(index, total, page_count) ==
    [level |-> 1, title |-> index + 1, page |-> BookmarkPage(total, page_count)]

\* text = f"Page {page_num + 1}"
PageNumberText(n) == n + 1

\* page.insert_text(...): the element drawn on a page by _add_page_numbers
PageNumberOverlay(n) == [kind |-> "page_number", n |-> PageNumberText(n)]

\* page.insert_text(...) on page n (0-based) of a document
DrawOn(document, n, element) ==
    [document EXCEPT ![n + 1].content = Append(@, element)]

\* the success record of merge_pdfs
MergeSuccess ==
    [success |-> TRUE,
     file_id |-> "session_id",
     output_file |-> MergedFile,
     total_pages |-> total_pages,
     processing_time |-> 0,
     metadata |-> [merged_files |-> Len(input_files),
                   total_pages |-> total_pages]]

\* an exception reaches merge_pdfs's except branch: nothing is closed there
MergeFails(error, handles) ==
    /\ pc' = "done"
    /\ result' = Failure(error)
    /\ open_docs' = handles
    /\ UNCHANGED <<split_config, merge_config, operation_data, input_files, page, doc,
                   total_pages, output_files, merged_doc, toc, i, session_dir,
                   label_page_num,
                   text_arg, pages_data, page_num_arg,
                   request, response, status_info, upload_dir>>

\* merged_doc = fitz.open(); total_pages = 0
MergeStart ==
    /\ pc = "merge_start"
    /\ merged_doc' = NewDoc
    /\ total_pages' = 0
    /\ i' = 0
    /\ open_docs' = open_docs \cup {"merged_doc"}
    /\ pc' = "merge_loop"
    /\ UNCHANGED <<split_config, merge_config, operation_data, input_files, page, doc,
                   output_files, toc, session_dir, label_page_num, result,
                   text_arg, pages_data, page_num_arg,
                   request, response, status_info, upload_dir>>

\* one iteration of: for i, file_path in enumerate(input_files), for an
\* input that has pages (or, without pages, when insert_pdf copies nothing)
MergeAppend ==
    /\ pc = "merge_loop"
    /\ i < Len(input_files)
    /\ LET source == input_files[i + 1]
           page_count == Len(source)
           total == total_pages + page_count
       IN  /\ doc' = source
           /\ merged_doc' = InsertPdf(merged_doc, source, 0, MergeToPage(page_count))
           /\ total_pages' = total
           /\ toc' = IF DictGet(merge_config, "bookmark_structure", TRUE)
                    THEN Append(toc, Bookmark(i, total, page_count))
                    ELSE toc
    /\ i' = i + 1
    /\ UNCHANGED <<pc, split_config, merge_config, operation_data, input_files, page,
                   output_files, open_docs, session_dir, label_page_num, result,
                   text_arg, pages_data, page_num_arg,
                   request, response, status_info, upload_dir>>

\* fitz.open(file_path) raises in an iteration
MergeOpenRaises ==
    /\ pc = "merge_loop"
    /\ i < Len(input_files)
    /\ MergeFails("ResourceIO", open_docs)

\* insert_pdf(doc, from_page=0, to_page=-1) raises for an input without pages
MergeInsertRaises ==
    /\ pc = "merge_loop"
    /\ i < Len(input_files)
    /\ Len(input_files[i + 1]) = 0
    /\ doc' = input_files[i + 1]
    /\ pc' = "done"
    /\ result' = Failure("ResourceIO")
    /\ open_docs' = open_docs \cup {"doc"}
    /\ UNCHANGED <<split_config, merge_config, operation_data, input_files, page,
                   total_pages, output_files, merged_doc, toc, i, session_dir,
                   label_page_num,
                   text_arg, pages_data, page_num_arg,
                   request, response, status_info, upload_dir>>

\* the loop over input_files is exhausted:
\* if merge_config.get("page_numbering", True): await self._add_page_numbers(merged_doc)
MergeLoopEnd ==
    /\ pc = "merge_loop"
    /\ i >= Len(input_files)
    /\ label_page_num' = 0
    /\ pc' = IF DictGet(merge_config, "page_numbering", TRUE)
             THEN "merge_number" ELSE "merge_save"
    /\ UNCHANGED <<split_config, merge_config, operation_data, input_files, page, doc,
                   total_pages, output_files, merged_doc, toc, i, open_docs,
                   session_dir, result,
                   text_arg, pages_data, page_num_arg,
                   request, response, status_info, upload_dir>>

\* one iteration of: for page_num in range(len(doc)) in _add_page_numbers
MergeNumberPage ==
    /\ pc = "merge_number"
    /\ label_page_num < Len(merged_doc)
    /\ merged_doc' = DrawOn(merged_doc, label_page_num, PageNumberOverlay(label_page_num))
    /\ label_page_num' = label_page_num + 1
    /\ UNCHANGED <<pc, split_config, merge_config, operation_data, input_files, page,
                   doc, total_pages, output_files, toc, i, open_docs,
                   session_dir, result,
                   text_arg, pages_data, page_num_arg,
                   request, response, status_info, upload_dir>>

\* page.insert_text raises in _add_page_numbers: its except branch logs the
\* error and returns, and merge_pdfs goes on to save
MergeNumberRaises ==
    /\ pc = "merge_number"
    /\ label_page_num < Len(merged_doc)
    /\ pc' = "merge_save"
    /\ UNCHANGED <<split_config, merge_config, operation_data, input_files, page, doc,
                   total_pages, output_files, merged_doc, toc, i, open_docs,
                   session_dir, label_page_num, result,
                   text_arg, pages_data, page_num_arg,
                   request, response, status_info, upload_dir>>

\* _add_page_numbers returns after its last page
MergeNumberEnd ==
    /\ pc = "merge_number"
    /\ label_page_num >= Len(merged_doc)
    /\ pc' = "merge_save"
    /\ UNCHANGED <<split_config, merge_config, operation_data, input_files, page, doc,
                   total_pages, output_files, merged_doc, toc, i, open_docs,
                   session_dir, label_page_num, result,
                   text_arg, pages_data, page_num_arg,
                   request, response, status_info, upload_dir>>

\* merged_doc.save(str(output_file)); merged_doc.close(); return {...}
\* (PyMuPDF refuses to save a document that has no page)
MergeSave ==
    /\ pc = "merge_save"
    /\ IF Len(merged_doc) = 0
       THEN MergeFails("ValueError", open_docs)
       ELSE /\ session_dir' = Save(session_dir, MergedFile, merged_doc)
            /\ open_docs' = open_docs \ {"merged_doc"}
            /\ result' = MergeSuccess
            /\ pc' = "done"
            /\ UNCHANGED <<split_config, merge_config, operation_data,
                           input_files, page, doc, total_pages, output_files,
                           merged_doc, toc, i, label_page_num,
                   text_arg, pages_data, page_num_arg,
                   request, response, status_info, upload_dir>>

\* merged_doc.save(...) raises
MergeSaveRaises ==
    /\ pc = "merge_save"
    /\ MergeFails("ResourceIO", open_docs)

InitMerge ==
    /\ pc = "merge_start"
    /\ split_config = EmptyDict
    /\ merge_config \in MergeConfigs
    /\ operation_data = EmptyDict
    /\ input_files \in MergeInputs
    /\ page = 0
    /\ doc = <<>>
    /\ total_pages = 0
    /\ output_files = <<>>
    /\ merged_doc = <<>>
    /\ toc = <<>>
    /\ i = 0
    /\ open_docs = {}
    /\ session_dir = EmptyDict
    /\ label_page_num = 0
    /\ result = NoResult
    /\ text_arg = <<>>
    /\ pages_data = <<>>
    /\ page_num_arg = 0
    /\ request = EmptyDict
    /\ response = NoResult
    /\ status_info = NoResult
    /\ upload_dir = EmptyDict

NextMerge ==
    \/ MergeStart
    \/ MergeAppend
    \/ MergeOpenRaises
    \/ MergeInsertRaises
    \/ MergeLoopEnd
    \/ MergeNumberPage
    \/ MergeNumberRaises
    \/ MergeNumberEnd
    \/ MergeSave
    \/ MergeSaveRaises

SpecMerge == InitMerge /\ [][NextMerge]_vars

-----------------------------------------------------------------------------
(* PDFService.edit_pdf *)

\* an Optional value: None, or a number
None == <<>>
Some(v) == <<v>>

\* the coordinates, sizes and the image's intrinsic size the requests use
EditX == 10
EditY == 20
EditWidth == 30
EditHeight == 40
ImgWidth == 7
ImgHeight == 9

\* the variant fields of operation_data for add_text: with every required
\* field, and without text
TextData ==
    {[text |-> "text", x |-> EditX, y |-> EditY, font_size |-> 12],
     [x |-> EditX, y |-> EditY, font_size |-> 12]}

\* the variant fields for add_image: width and height each absent, None
\* (as the controller passes an omitted form field) or a number; and
\* without image_path
ImageData ==
    {[image_path |-> "image", x |-> EditX, y |-> EditY]}
    \cup [image_path : {"image"}, x : {EditX}, y : {EditY},
          width : {None, Some(EditWidth)}]
    \cup [image_path : {"image"}, x : {EditX}, y : {EditY},
          height : {None, Some(EditHeight)}]
    \cup [image_path : {"image"}, x : {EditX}, y : {EditY},
          width : {None, Some(EditWidth)}, height : {None, Some(EditHeight)}]
    \cup {[x |-> EditX, y |-> EditY]}

\* the variant fields for add_annotation: none (the controller adds none),
\* x and y, and x, y, width and height
AnnotationData ==
    {EmptyDict,
     [x |-> EditX, y |-> EditY],
     [x |-> EditX, y |-> EditY, width |-> Some(EditWidth), height |-> Some(EditHeight)]}

\* d1 updated with the items of d2
DictUpdate(d1, d2) ==
    [k \in DOMAIN d1 \cup DOMAIN d2 |-> IF k \in DOMAIN d2 THEN d2[k] ELSE d1[k]]

\* the operation_data dicts
EditRequests ==
    {DictUpdate([operation_type |-> t[1], page_number |-> n], t[2]) :
        t \in ({"add_text"} \X TextData)
              \cup ({"add_image"} \X ImageData)
              \cup ({"add_annotation"} \X AnnotationData)
              \cup ({"remove_element"} \X {EmptyDict}),
        n \in (0 - 1)..(MaxPages + 1)}

\* if operation_data["page_number"] > len(doc): raise ValueError
PageMissing(page_number, page_count) == page_number > page_count

\* doc.load_page(pno) raises: PyMuPDF accepts every integer pno below the
\* page count of a document that has pages
LoadPageRaises(pno, page_count) == pno >= page_count \/ page_count = 0

\* the page doc.load_page(pno) loads, as a 0-based index: a negative pno
\* counts from the end (pno is raised by page_count until it is >= 0)
LoadPage(pno, page_count) == pno % page_count

\* the exception the element insertion raises for the data, or "none":
\* data["k"] of an absent key is a KeyError, a number plus None a TypeError
InsertError(data) ==
    CASE data["operation_type"] = "add_text" ->
            IF {"x", "y", "text", "font_size"} \subseteq DOMAIN data
            THEN "none" ELSE "KeyError"
      [] data["operation_type"] = "add_image" ->
            IF ~({"image_path", "x", "y"} \subseteq DOMAIN data) THEN "KeyError"
            ELSE IF DictGet(data, "width", Some(ImgWidth)) = None
                    \/ DictGet(data, "height", Some(ImgHeight)) = None
                 THEN "TypeError" ELSE "none"
      [] data["operation_type"] = "add_annotation" ->
            IF {"x", "y"} \subseteq DOMAIN data THEN "none" ELSE "KeyError"
      [] OTHER -> "ValueError"   \* Unsupported operation

\* the element the insertion draws: its kind, anchor and rectangle size
\* (text is inserted at the point (x, y); the rectangle computed for it is
\* not used)
Element(data) ==
    CASE data["operation_type"] = "add_text" ->
            [kind |-> "add_text", x |-> data["x"], y |-> data["y"], w |-> 0, h |-> 0]
      [] data["operation_type"] = "add_image" ->
            [kind |-> "add_image", x |-> data["x"], y |-> data["y"],
             w |-> DictGet(data, "width", Some(ImgWidth))[1],
             h |-> DictGet(data, "height", Some(ImgHeight))[1]]
      [] data["operation_type"] = "add_annotation" ->
            [kind |-> "add_annotation", x |-> data["x"], y |-> data["y"],
             w |-> DictGet(data, "width", Some(100))[1],
             h |-> DictGet(data, "height", Some(20))[1]]

\* the success record of edit_pdf
EditSuccess ==
    [success |-> TRUE,
     file_id |-> "session_id",
     output_file |-> EditedFile,
     processing_time |-> 0,
     metadata |-> [operation |-> operation_data["operation_type"],
                   page |-> operation_data["page_number"]]]

\* an exception reaches edit_pdf's except branch: nothing is closed there
EditFails(error) ==
    /\ pc' = "done"
    /\ result' = Failure(error)
    /\ UNCHANGED <<split_config, merge_config, operation_data, input_files, page,
                   doc, total_pages, output_files, merged_doc, toc, i, open_docs,
                   session_dir, label_page_num,
                   text_arg, pages_data, page_num_arg,
                   request, response, status_info, upload_dir>>

\* doc = fitz.open(input_file)
EditOpen ==
    /\ pc = "edit_start"
    /\ doc' = input_files[1]
    /\ open_docs' = open_docs \cup {"doc"}
    /\ pc' = "edit_load"
    /\ UNCHANGED <<split_config, merge_config, operation_data, input_files, page,
                   total_pages, output_files, merged_doc, toc, i, session_dir,
                   label_page_num, result,
                   text_arg, pages_data, page_num_arg,
                   request, response, status_info, upload_dir>>

\* fitz.open(input_file) raises
EditOpenRaises ==
    /\ pc = "edit_start"
    /\ EditFails("ResourceIO")

\* if operation_data["page_number"] > len(doc): raise ValueError(...)
\* page = doc.load_page(operation_data["page_number"] - 1)
EditLoadPage ==
    /\ pc = "edit_load"
    /\ LET page_number == operation_data["page_number"]
       IN  IF PageMissing(page_number, Len(doc))
              \/ LoadPageRaises(page_number - 1, Len(doc))
           THEN EditFails("ValueError")
           ELSE /\ page' = LoadPage(page_number - 1, Len(doc))
                /\ pc' = "edit_insert"
                /\ UNCHANGED <<split_config, merge_config, operation_data,
                               input_files, doc, total_pages, output_files,
                               merged_doc, toc, i, open_docs, session_dir,
                               label_page_num, result,
                   text_arg, pages_data, page_num_arg,
                   request, response, status_info, upload_dir>>

\* the if / elif chain on operation_type and the _add_..._to_page it calls
EditInsert ==
    /\ pc = "edit_insert"
    /\ IF InsertError(operation_data) # "none"
       THEN EditFails(InsertError(operation_data))
       ELSE /\ doc' = DrawOn(doc, page, Element(operation_data))
            /\ pc' = "edit_save"
            /\ UNCHANGED <<split_config, merge_config, operation_data,
                           input_files, page, total_pages, output_files,
                           merged_doc, toc, i, open_docs, session_dir,
                           label_page_num, result,
                   text_arg, pages_data, page_num_arg,
                   request, response, status_info, upload_dir>>

\* Image.open / insert_text / insert_image / add_highlight_annot raises
EditInsertRaises ==
    /\ pc = "edit_insert"
    /\ InsertError(operation_data) = "none"
    /\ EditFails("ResourceIO")

\* doc.save(str(output_file)); doc.close(); return {...}
EditSave ==
    /\ pc = "edit_save"
    /\ session_dir' = Save(session_dir, EditedFile, doc)
    /\ open_docs' = open_docs \ {"doc"}
    /\ result' = EditSuccess
    /\ pc' = "done"
    /\ UNCHANGED <<split_config, merge_config, operation_data, input_files, page,
                   doc, total_pages, output_files, merged_doc, toc, i,
                   label_page_num,
                   text_arg, pages_data, page_num_arg,
                   request, response, status_info, upload_dir>>

\* doc.save(...) raises
EditSaveRaises ==
    /\ pc = "edit_save"
    /\ EditFails("ResourceIO")

InitEdit ==
    /\ pc = "edit_start"
    /\ split_config = EmptyDict
    /\ merge_config = EmptyDict
    /\ operation_data \in EditRequests
    /\ \E n \in 0..MaxPages : input_files = <<SourceDoc(1, n)>>
    /\ page = 0
    /\ doc = <<>>
    /\ total_pages = 0
    /\ output_files = <<>>
    /\ merged_doc = <<>>
    /\ toc = <<>>
    /\ i = 0
    /\ open_docs = {}
    /\ session_dir = EmptyDict
    /\ label_page_num = 0
    /\ result = NoResult
    /\ text_arg = <<>>
    /\ pages_data = <<>>
    /\ page_num_arg = 0
    /\ request = EmptyDict
    /\ response = NoResult
    /\ status_info = NoResult
    /\ upload_dir = EmptyDict

NextEdit ==
    \/ EditOpen
    \/ EditOpenRaises
    \/ EditLoadPage
    \/ EditInsert
    \/ EditInsertRaises
    \/ EditSave
    \/ EditSaveRaises

SpecEdit == InitEdit /\ [][NextEdit]_vars

-----------------------------------------------------------------------------
(* Properties of split_pdf, checked under SpecSplit *)

\* split_pdf has returned
SplitDone == pc = "done"

\* the page count of the source document
SourcePages == Len(input_files[1])

\* split_pdf returned a failure that no library call's raising explains
SplitRejected == result.success = FALSE /\ result.error # "ResourceIO"

\* pages first..last (1-based) of the source document, as stored in its file
SourceSlice(first, last) == [k \in 1..(last - first + 1) |-> Page(1, first + k - 1)]

\* the entries of a requested page list that lie in 1..n, in the list's order
RECURSIVE KeptPages(_, _)
KeptPages(req, n) ==
    IF req = <<>> THEN <<>>
    ELSE (IF 1 <= Head(req) /\ Head(req) <= n THEN <<Head(req)>> ELSE <<>>)
         \o KeptPages(Tail(req), n)

\* C1: a 'pages' split of a document of n >= 1 pages with any list of
\* requested integers succeeds (it fails only when opening or saving a
\* document raises); its outputs are, in the caller's order, one document per
\* requested entry p with 1 <= p <= n, each holding exactly source page p,
\* and the entries outside 1..n leave no output.
C1_PagesSplit ==
    (SplitDone /\ split_config["split_type"] = "pages"
       /\ "pages" \in DOMAIN split_config /\ SourcePages >= 1)
    => /\ ~SplitRejected
       /\ result.success =>
            LET kept == KeptPages(split_config["pages"], SourcePages)
            IN  /\ result.file_count = Len(kept)
                /\ Len(result.output_files) = Len(kept)
                /\ \A k \in 1..Len(kept) :
                      /\ result.output_files[k] = PageFile(kept[k])
                      /\ PageFile(kept[k]) \in DOMAIN session_dir
                      /\ session_dir[PageFile(kept[k])] = <<Page(1, kept[k])>>
                /\ {f \in DOMAIN session_dir : f.kind = "page"}
                      = {PageFile(kept[k]) : k \in 1..Len(kept)}

\* C1 witness: a successful 'pages' split of two requested entries, one of
\* them outside the document, that wrote one output
C1_Witness ==
    /\ SplitDone
    /\ split_config["split_type"] = "pages"
    /\ "pages" \in DOMAIN split_config
    /\ SourcePages >= 1
    /\ result.success
    /\ Len(split_config["pages"]) = 2
    /\ split_config["pages"][1] > SourcePages
    /\ result.file_count = 1

\* largest number written in the ranges the range claim ranges over
MaxRangeNumber == 10

\* str(n) for 0 <= n < 100
DecStr(n) ==
    LET d(k) == CASE k = 0 -> "0" [] k = 1 -> "1" [] k = 2 -> "2" [] k = 3 -> "3"
                  [] k = 4 -> "4" [] k = 5 -> "5" [] k = 6 -> "6" [] k = 7 -> "7"
                  [] k = 8 -> "8" [] k = 9 -> "9"
    IN  IF n < 10 THEN <<d(n)>> ELSE <<d(n \div 10), d(n % 10)>>

\* the string 'start-end'
RangeStr(start, end) == DecStr(start) \o <<"-">> \o DecStr(end)

\* the pairs (start, end) whose string 'start-end' is s
RangePairs(s) ==
    {pr \in (0..MaxRangeNumber) \X (0..MaxRangeNumber) : s = RangeStr(pr[1], pr[2])}

\* the (start, end) of the entries of a list of 'start-end' strings that
\* satisfy 1 <= start <= end <= n, in the list's order
RECURSIVE KeptRanges(_, _)
KeptRanges(req, n) ==
    IF req = <<>> THEN <<>>
    ELSE LET pr == CHOOSE q \in RangePairs(Head(req)) : TRUE
         IN  (IF 1 <= pr[1] /\ pr[1] <= pr[2] /\ pr[2] <= n THEN <<pr>> ELSE <<>>)
             \o KeptRanges(Tail(req), n)

\* C2: in a 'range' split whose entries are strings 'start-end' of two
\* unsigned decimal numbers, every entry with 1 <= start <= end <= n yields
\* one output holding source pages start..end (end - start + 1 pages), and
\* every other entry is skipped: the split does not fail for it (it fails
\* only when opening or saving a document raises) and the outputs of the
\* other entries are what they are without it.
C2_RangeSplit ==
    (SplitDone /\ split_config["split_type"] = "range"
       /\ "page_ranges" \in DOMAIN split_config
       /\ \A k \in 1..Len(split_config["page_ranges"]) :
              RangePairs(split_config["page_ranges"][k]) # {})
    => /\ ~SplitRejected
       /\ result.success =>
            LET kept == KeptRanges(split_config["page_ranges"], SourcePages)
            IN  /\ result.file_count = Len(kept)
                /\ Len(result.output_files) = Len(kept)
                /\ \A k \in 1..Len(kept) :
                      LET f == RangeFile(kept[k][1], kept[k][2])
                      IN  /\ result.output_files[k] = f
                          /\ f \in DOMAIN session_dir
                          /\ Len(session_dir[f]) = kept[k][2] - kept[k][1] + 1
                          /\ session_dir[f] = SourceSlice(kept[k][1], kept[k][2])
                /\ {f \in DOMAIN session_dir : f.kind = "pages"}
                      = {RangeFile(kept[k][1], kept[k][2]) : k \in 1..Len(kept)}

\* C2 witness: a successful split of a 3-page document by '1-2' and '3-10'
\* wrote pages 1..2 and skipped '3-10'
C2_Witness ==
    /\ SplitDone
    /\ split_config["split_type"] = "range"
    /\ "page_ranges" \in DOMAIN split_config
    /\ split_config["page_ranges"] = <<RangeStr(1, 2), RangeStr(3, 10)>>
    /\ SourcePages = 3
    /\ result.success
    /\ result.output_files = <<RangeFile(1, 2)>>

\* ceil(n / m) for m > 0
CeilDiv(n, m) == (n + m - 1) \div m

\* C3: a 'size' split with a positive max_pages_per_file m of a document of
\* n >= 1 pages succeeds (it fails only when opening or saving a document
\* raises) with ceil(n/m) outputs; output k is named part_k and holds the
\* consecutive source pages (k-1)*m+1 .. min(k*m, n), so that the outputs
\* partition 1..n in order, none has more than m pages and all but the last
\* have exactly m.
C3_SizeSplit ==
    (SplitDone /\ split_config["split_type"] = "size"
       /\ "max_pages_per_file" \in DOMAIN split_config
       /\ split_config["max_pages_per_file"] >= 1 /\ SourcePages >= 1)
    => /\ ~SplitRejected
       /\ result.success =>
            LET m == split_config["max_pages_per_file"]
                n == SourcePages
                count == CeilDiv(n, m)
                first(k) == (k - 1) * m + 1
                last(k) == IF k * m <= n THEN k * m ELSE n
            IN  /\ result.file_count = count
                /\ Len(result.output_files) = count
                /\ {f \in DOMAIN session_dir : f.kind = "part"}
                      = {PartFile(k) : k \in 1..count}
                /\ \A k \in 1..count :
                      /\ result.output_files[k] = PartFile(k)
                      /\ session_dir[PartFile(k)] = SourceSlice(first(k), last(k))
                      /\ Len(session_dir[PartFile(k)]) <= m
                      /\ k < count => Len(session_dir[PartFile(k)]) = m
                /\ last(count) = n

\* C3 witness: a successful 'size' split whose last chunk is shorter
C3_Witness ==
    /\ SplitDone
    /\ split_config["split_type"] = "size"
    /\ "max_pages_per_file" \in DOMAIN split_config
    /\ split_config["max_pages_per_file"] = 2
    /\ SourcePages = 3
    /\ result.success
    /\ result.file_count = 2
    /\ Len(session_dir[PartFile(2)]) = 1

\* C8: split_pdf on a source document without pages returns a failure, for
\* every split_type (violated: it returns success with no output file)
C8_EmptyDocumentFails ==
    (SplitDone /\ SourcePages = 0) => result.success = FALSE

\* C9: split_pdf returns a failure when the field of the selected variant
\* is absent ('size' without max_pages_per_file, 'pages' without pages,
\* 'range' without page_ranges), here for a source document that has pages
\* (violated: the absent field is defaulted and the split succeeds)
C9_MissingFieldFails ==
    (SplitDone /\ SourcePages >= 1
       /\ \/ split_config["split_type"] = "size"
             /\ "max_pages_per_file" \notin DOMAIN split_config
          \/ split_config["split_type"] = "pages"
             /\ "pages" \notin DOMAIN split_config
          \/ split_config["split_type"] = "range"
             /\ "page_ranges" \notin DOMAIN split_config)
    => result.success = FALSE

-----------------------------------------------------------------------------
(* Properties of merge_pdfs, checked under SpecMerge *)

\* merge_pdfs has returned
MergeDone == pc = "done"

\* the sum of the page counts of the first n input documents
RECURSIVE PagesBefore(_)
PagesBefore(n) == IF n = 0 THEN 0 ELSE PagesBefore(n - 1) + Len(input_files[n])

\* the origin (input document, page of it) of each page of a document
Origins(document) ==
    [k \in 1..Len(document) |-> <<document[k].src, document[k].pno>>]

\* the origins of the pages of the first n inputs, input after input
RECURSIVE InputOrigins(_)
InputOrigins(n) ==
    IF n = 0 THEN <<>>
    ELSE InputOrigins(n - 1) \o [k \in 1..Len(input_files[n]) |-> <<n, k>>]

\* C4: a successful merge of inputs with page counts p1..pN produces one
\* document whose page count, and the total_pages reported, is p1+...+pN
\* and whose pages are input 1's pages in order, then input 2's, and so on.
C4_MergeConcatenates ==
    (MergeDone /\ result.success)
    => /\ MergedFile \in DOMAIN session_dir
       /\ result.output_file = MergedFile
       /\ Len(session_dir[MergedFile]) = PagesBefore(Len(input_files))
       /\ result.total_pages = PagesBefore(Len(input_files))
       /\ result.metadata.total_pages = PagesBefore(Len(input_files))
       /\ Origins(session_dir[MergedFile]) = InputOrigins(Len(input_files))

\* C4 witness: a successful merge of a 2-page and a 3-page document
C4_Witness ==
    /\ MergeDone
    /\ result.success
    /\ Len(input_files) = 2
    /\ Len(input_files[1]) = 2
    /\ Len(input_files[2]) = 3
    /\ result.total_pages = 5

Overlays(pg) ==
    {pg.content[k].n : k \in {h \in 1..Len(pg.content) :
                                  pg.content[h].kind = "page_number"}}

\* C6: when a merge of two or more inputs with page_numbering true reports
\* success, every page k of the merged output carries the overlay "Page k" (violated: an error
\* while drawing is swallowed by _add_page_numbers and success is reported
\* with pages left without overlay)
C6_EveryPageNumbered ==
    (MergeDone /\ result.success /\ Len(input_files) >= 2
       /\ "page_numbering" \in DOMAIN merge_config
       /\ merge_config["page_numbering"])
    => \A k \in 1..Len(session_dir[MergedFile]) :
          Overlays(session_dir[MergedFile][k]) = {k}

\* C7: merge_pdfs called with fewer than 2 input documents returns a failure
\* record and writes no merged output file (violated: one input is "merged"
\* into a copy of itself and success is reported)
C7_FewerThanTwoFails ==
    (MergeDone /\ Len(input_files) < 2)
    => /\ result.success = FALSE
       /\ MergedFile \notin DOMAIN session_dir

-----------------------------------------------------------------------------
(* Properties of edit_pdf, checked under SpecEdit *)

\* edit_pdf has returned
EditDone == pc = "done"

\* C10: edit_pdf returns a failure for every page_number that designates no
\* page of the document (page_number < 1 or page_number > page count); then
\* no page has been modified and no edited file is written (violated: for
\* page_number <= 0 a page counted from the end is edited and saved)
C10_MissingPageFails ==
    (EditDone
       /\ (operation_data["page_number"] < 1
           \/ operation_data["page_number"] > Len(input_files[1])))
    => /\ result.success = FALSE
       /\ EditedFile \notin DOMAIN session_dir
       /\ doc \in {<<>>, input_files[1]}

-----------------------------------------------------------------------------
(* The three operations of PDFService side by side: one request, handled by
   split_pdf, merge_pdfs or edit_pdf *)

InitPdf == InitSplit \/ InitMerge \/ InitEdit

NextPdf == NextSplit \/ NextMerge \/ NextEdit

SpecPdf == InitPdf /\ [][NextPdf]_vars

\* the operation has returned its record
PdfDone == pc = "done"

\* the errors a request itself causes (a library call that raises apart)
RequestErrors == {"ValueError", "KeyError", "TypeError"}

\* C11: whatever is raised while edit_pdf, split_pdf or merge_pdfs handles a
\* request, the operation returns a record: either success = FALSE with
\* exactly an error string, or success = TRUE carrying file_id, the output
\* path(s), processing_time and metadata
C11_UniformRecord ==
    PdfDone =>
       \/ /\ result.success = FALSE
          /\ DOMAIN result = {"success", "error"}
          /\ result.error \in RequestErrors \cup {"ResourceIO"}
       \/ /\ result.success = TRUE
          /\ {"file_id", "processing_time", "metadata"} \subseteq DOMAIN result
          /\ \/ "output_file" \in DOMAIN result
             \/ "output_files" \in DOMAIN result

\* a request error (here a malformed range string or an unsupported
\* operation_type) came back as a failure record
C11_Witness ==
    /\ PdfDone
    /\ result.success = FALSE
    /\ result.error = "ValueError"
    /\ open_docs # {}

\* C12: every document handle the operation opened is closed when it
\* returns, on the success path and on every failure path (violated: the
\* except branches close nothing, so a failure after fitz.open leaves the
\* handles open)
C12_HandlesClosed == PdfDone => open_docs = {}

-----------------------------------------------------------------------------
(* Text, as OCRService (src/services/ocr_service.py) handles it: a string
   is a sequence of characters, each a one-character string.  Bel stands for
   the control character U+0007, which has no escape in a string here. *)

Bel == "BEL"

LowerLetters ==
    <<"a", "b", "c", "d", "e", "f", "g", "h", "i", "j", "k", "l", "m",
      "n", "o", "p", "q", "r", "s", "t", "u", "v", "w", "x", "y", "z">>

UpperLetters ==
    <<"A", "B", "C", "D", "E", "F", "G", "H", "I", "J", "K", "L", "M",
      "N", "O", "P", "Q", "R", "S", "T", "U", "V", "W", "X", "Y", "Z">>

\* the elements of a sequence
Range(s) == {s[k] : k \in DOMAIN s}

\* char.isspace(), and what \s matches
IsSpace(char) == char \in {" ", "\n", "\t", "\r"}

\* char.isprintable(): the space is printable, other whitespace and control
\* characters are not
IsPrintable(char) == char \notin {"\n", "\t", "\r", Bel}

\* char.isalpha()
IsAlpha(char) == char \in Range(LowerLetters) \cup Range(UpperLetters)

\* char.lower()
LowerChar(char) ==
    IF char \in Range(UpperLetters)
    THEN LowerLetters[CHOOSE k \in DOMAIN UpperLetters : UpperLetters[k] = char]
    ELSE char

\* text.lower()
Lower(text) == [k \in DOMAIN text |-> LowerChar(text[k])]

\* re.sub(r'\s+', ' ', text): every run of whitespace becomes one space
CollapseWhitespace(text) ==
    LET sub[k \in 0..Len(text)] ==
            IF k = 0 THEN <<>>
            ELSE IF ~IsSpace(text[k]) THEN Append(sub[k - 1], text[k])
            ELSE IF k > 1 /\ IsSpace(text[k - 1]) THEN sub[k - 1]
            ELSE Append(sub[k - 1], " ")
    IN  sub[Len(text)]

\* ''.join(char for char in text if char.isprintable() or char in '\n\t')
KeepPrintable(text) ==
    SelectSeq(text, LAMBDA char : IsPrintable(char) \/ char \in {"\n", "\t"})

\* text.strip()
Strip(text) ==
    LET inked == {k \in DOMAIN text : ~IsSpace(text[k])}
    IN  IF inked = {} THEN <<>>
        ELSE SubSeq(text,
                    CHOOSE k \in inked : \A j \in inked : k <= j,
                    CHOOSE k \in inked : \A j \in inked : j <= k)

\* text.split(): the maximal runs of non-whitespace characters, in order
RECURSIVE SplitFrom(_, _)
SplitFrom(text, k) ==
    IF k > Len(text) THEN <<>>
    ELSE IF IsSpace(text[k]) THEN SplitFrom(text, k + 1)
    ELSE LET stops == {j \in k..Len(text) : IsSpace(text[j])}
             end == IF stops = {} THEN Len(text)
                    ELSE (CHOOSE j \in stops : \A h \in stops : j <= h) - 1
         IN  <<SubSeq(text, k, end)>> \o SplitFrom(text, end + 1)

Split(text) == SplitFrom(text, 1)

\* sep.join(parts)
RECURSIVE Join(_, _)
Join(sep, parts) ==
    IF parts = <<>> THEN <<>>
    ELSE IF Len(parts) = 1 THEN parts[1]
    ELSE parts[1] \o sep \o Join(sep, Tail(parts))

\* OCRService._clean_text
CleanText(text) ==
    IF text = <<>> THEN <<>>
    ELSE Strip(KeepPrintable(CollapseWhitespace(text)))

\* if len(text) < 10: return False
ReadableMinLength == 10

\* len(words) < 5
FewWords == 5

\* common_words
CommonWords ==
    { <<"t", "h", "e">>, <<"a", "n", "d">>, <<"t", "o">>, <<"o", "f">>, <<"a">>,
      <<"i", "n">>, <<"f", "o", "r">>, <<"i", "s">>, <<"o", "n">>,
      <<"t", "h", "a", "t">>, <<"b", "y">>, <<"t", "h", "i", "s">>,
      <<"w", "i", "t", "h">>, <<"f", "r", "o", "m">>, <<"a", "t">>, <<"a", "s">> }

\* faulty variant of MostlyAlpha: a ratio of exactly one half passes
MostlyAlpha_Half(alpha_chars, total_chars) == 2 * alpha_chars >= total_chars

\* alpha_ratio = alpha_chars / total_chars; alpha_ratio > 0.5
MostlyAlpha(alpha_chars, total_chars) == 2 * alpha_chars > total_chars

\* OCRService._is_readable_text
IsReadableText(text) ==
    IF Len(text) < ReadableMinLength THEN FALSE
    ELSE LET alpha_chars == Len(SelectSeq(text, IsAlpha))
             total_chars == Len(SelectSeq(text, LAMBDA char : char # " "))
             words == Split(Lower(text))
             common_word_count ==
                 Len(SelectSeq(words, LAMBDA word : word \in CommonWords))
         IN  IF total_chars = 0 THEN FALSE
             ELSE /\ MostlyAlpha(alpha_chars, total_chars)
                  /\ (Len(words) < FewWords \/ common_word_count > 0)

-----------------------------------------------------------------------------
(* _clean_text and _is_readable_text applied to one string *)

\* most words of a sample sentence
MaxWords == 6
\* most characters of a sample raw string
MaxChars == 5

\* the words of the sample sentences: two that are common words once in
\* lower case, a word of letters, a word of digits
SampleWords ==
    { <<"T", "h", "e">>, <<"o", "f">>, <<"H", "e", "l", "l", "o">>,
      <<"1", "2", "3", "4">> }

\* the characters of the sample raw strings
SampleChars == {"a", " ", "\n", Bel}

\* the strings handed over: sentences of sample words, and raw strings
TextArgs ==
    {Join(<<" ">>, ws) : ws \in SeqsUpTo(SampleWords, MaxWords)}
    \cup SeqsUpTo(SampleChars, MaxChars)

\* text_clean = self._clean_text(text)
TextClean ==
    /\ pc = "text_start"
    /\ result' = [text_clean |-> CleanText(text_arg)]
    /\ pc' = "text_cleaned"
    /\ UNCHANGED <<split_config, merge_config, operation_data, input_files, page,
                   doc, total_pages, output_files, merged_doc, toc, i, open_docs,
                   session_dir, label_page_num, text_arg, pages_data, page_num_arg,
                   request, response, status_info, upload_dir>>

\* readable = self._is_readable_text(text)
TextReadable ==
    /\ pc = "text_start"
    /\ result' = [readable |-> IsReadableText(text_arg)]
    /\ pc' = "text_tested"
    /\ UNCHANGED <<split_config, merge_config, operation_data, input_files, page,
                   doc, total_pages, output_files, merged_doc, toc, i, open_docs,
                   session_dir, label_page_num, text_arg, pages_data, page_num_arg,
                   request, response, status_info, upload_dir>>

InitText ==
    /\ pc = "text_start"
    /\ split_config = EmptyDict
    /\ merge_config = EmptyDict
    /\ operation_data = EmptyDict
    /\ input_files = <<>>
    /\ page = 0
    /\ doc = <<>>
    /\ total_pages = 0
    /\ output_files = <<>>
    /\ merged_doc = <<>>
    /\ toc = <<>>
    /\ i = 0
    /\ open_docs = {}
    /\ session_dir = EmptyDict
    /\ label_page_num = 0
    /\ result = NoResult
    /\ text_arg \in TextArgs
    /\ pages_data = <<>>
    /\ page_num_arg = 0
    /\ request = EmptyDict
    /\ response = NoResult
    /\ status_info = NoResult
    /\ upload_dir = EmptyDict

NextText == TextClean \/ TextReadable

SpecText == InitText /\ [][NextText]_vars

-----------------------------------------------------------------------------
(* Properties of _is_readable_text and _clean_text, checked under SpecText *)

\* the positions at which a whitespace-separated word of s starts
WordStarts(s) ==
    {k \in DOMAIN s : ~IsSpace(s[k]) /\ (k = 1 \/ IsSpace(s[k - 1]))}

\* s[a..b] is a whole whitespace-separated word of s
IsWordAt(s, a, b) ==
    /\ a \in WordStarts(s)
    /\ \A k \in a..b : ~IsSpace(s[k])
    /\ (b = Len(s) \/ IsSpace(s[b + 1]))

\* some word of s is, in lower case, one of the stop words
HasStopWord(s) ==
    \E a \in DOMAIN s : \E b \in a..Len(s) :
        IsWordAt(s, a, b) /\ SubSeq(Lower(s), a, b) \in CommonWords

\* C14: _is_readable_text is true exactly when the string has length >= 10,
\* more than half of its non-space characters are alphabetic, and it has
\* fewer than 5 words or holds a stop word in any letter case; a string
\* shorter than 10 characters is rejected whatever else it holds
C14_ReadabilityTest ==
    pc = "text_tested" =>
       /\ result.readable =
             (/\ Len(text_arg) >= 10
              /\ 2 * Cardinality({k \in DOMAIN text_arg : IsAlpha(text_arg[k])})
                    > Cardinality({k \in DOMAIN text_arg : text_arg[k] # " "})
              /\ \/ Cardinality(WordStarts(text_arg)) < 5
                 \/ HasStopWord(text_arg))
       /\ (Len(text_arg) < 10 => result.readable = FALSE)

\* a sentence of six words, none but the capitalised "The" a stop word, was
\* found readable
C14_Witness ==
    /\ pc = "text_tested"
    /\ Cardinality(WordStarts(text_arg)) = 6
    /\ Cardinality({k \in WordStarts(text_arg) : text_arg[k] = "T"}) = 1
    /\ <<"o", "f">> \notin Range(Split(text_arg))
    /\ result.readable = TRUE

\* C19: the cleaned text has no leading or trailing whitespace, no
\* non-printable character and no two consecutive whitespace characters, and
\* cleaning it again changes nothing (violated: a control character between
\* two spaces is removed after the runs were collapsed, which leaves the two
\* spaces side by side)
C19_CleanNormalises ==
    pc = "text_cleaned" =>
       LET text_clean == result.text_clean
       IN  /\ text_clean # <<>> =>
                ~IsSpace(text_clean[1]) /\ ~IsSpace(text_clean[Len(text_clean)])
           /\ \A k \in DOMAIN text_clean : IsPrintable(text_clean[k])
           /\ \A k \in 1..(Len(text_clean) - 1) :
                ~(IsSpace(text_clean[k]) /\ IsSpace(text_clean[k + 1]))
           /\ CleanText(text_clean) = text_clean

-----------------------------------------------------------------------------
(* Numbers: an average is kept as the fraction <<numerator, denominator>> in
   lowest terms, so that no rounding enters the comparisons *)

RECURSIVE GCD(_, _)
GCD(a, b) == IF b = 0 THEN a ELSE GCD(b, a % b)

\* n / d for n >= 0, d > 0
Fraction(n, d) == <<n \div GCD(n, d), d \div GCD(n, d)>>

\* q * n for an integer n >= 0
FracTimes(q, n) == Fraction(q[1] * n, q[2])

\* p + q
FracPlus(p, q) == Fraction(p[1] * q[2] + q[1] * p[2], p[2] * q[2])

\* q / n for an integer n > 0
FracOver(q, n) == Fraction(q[1], q[2] * n)

\* q > n for an integer n
FracAbove(q, n) == q[1] > n * q[2]

\* sum(ns) for a sequence of integers
RECURSIVE Sum(_)
Sum(ns) == IF ns = <<>> THEN 0 ELSE Head(ns) + Sum(Tail(ns))

-----------------------------------------------------------------------------
(* OCRService._process_page *)

\* len(native_text_clean) > 50
NativeMinLength == 50
\* len(ocr_text_clean) > 10
OcrMinLength == 10
\* ocr_confidence > 60
OcrMinConfidence == 60

\* ocr_text = " ".join([word for word in ocr_data['text'] if word.strip()])
OcrText(ocr_data) ==
    Join(<<" ">>, SelectSeq(ocr_data.text, LAMBDA word : Strip(word) # <<>>))

\* int(conf) raises for some entry of ocr_data['conf']
ConfRaises(ocr_data) == \E k \in DOMAIN ocr_data.conf : ocr_data.conf[k] = None

\* confidences = [int(conf) for conf in ocr_data['conf'] if int(conf) > 0]
Confidences(ocr_data) ==
    LET kept == SelectSeq(ocr_data.conf, LAMBDA conf : conf[1] > 0)
    IN  [k \in DOMAIN kept |-> kept[k][1]]

\* ocr_confidence = sum(confidences) / len(confidences) if confidences else 0
OcrConfidence(ocr_data) ==
    IF Confidences(ocr_data) = <<>> THEN Fraction(0, 1)
    ELSE Fraction(Sum(Confidences(ocr_data)), Len(Confidences(ocr_data)))

\* the try block: ocr_text and ocr_confidence as they stand after it.  They
\* start as "" and 0; image_to_data may raise (ocr = None); ocr_text is
\* assigned before the confidences are computed
OcrStep(ocr) ==
    IF ocr = None
    THEN [ocr_text |-> <<>>, ocr_confidence |-> Fraction(0, 1)]
    ELSE IF ConfRaises(ocr[1])
    THEN [ocr_text |-> OcrText(ocr[1]), ocr_confidence |-> Fraction(0, 1)]
    ELSE [ocr_text |-> OcrText(ocr[1]), ocr_confidence |-> OcrConfidence(ocr[1])]

\* faulty variant of TextSource: the OCR text is tried before the native text
TextSource_OcrFirst(native_text_clean, ocr_text_clean, ocr_confidence) ==
    IF Len(ocr_text_clean) > OcrMinLength
       /\ FracAbove(ocr_confidence, OcrMinConfidence)
    THEN "ocr"
    ELSE IF Len(native_text_clean) > NativeMinLength
            /\ IsReadableText(native_text_clean)
    THEN "native"
    ELSE "hybrid"

\* the if / elif / else that chooses text_source
TextSource(native_text_clean, ocr_text_clean, ocr_confidence) ==
    IF Len(native_text_clean) > NativeMinLength
       /\ IsReadableText(native_text_clean)
    THEN "native"
    ELSE IF Len(ocr_text_clean) > OcrMinLength
            /\ FracAbove(ocr_confidence, OcrMinConfidence)
    THEN "ocr"
    ELSE "hybrid"

\* best_text of the chosen branch
BestText(text_source, native_text_clean, ocr_text_clean) ==
    CASE text_source = "native" -> native_text_clean
      [] text_source = "ocr" -> ocr_text_clean
      [] OTHER -> IF Len(native_text_clean) > Len(ocr_text_clean)
                  THEN native_text_clean
                  ELSE ocr_text_clean

\* the record _process_page returns for the page pg at index page_num
\* (dimensions and has_images, copied from the page, are left out)
ProcessPage(pg, page_num) ==
    LET ocr == OcrStep(pg.ocr_data)
        native_text_clean == CleanText(pg.native_text)
        ocr_text_clean == CleanText(ocr.ocr_text)
        text_source == TextSource(native_text_clean, ocr_text_clean,
                                  ocr.ocr_confidence)
        best_text == BestText(text_source, native_text_clean, ocr_text_clean)
    IN  [page_number |-> page_num + 1,
         native_text |-> native_text_clean,
         ocr_text |-> ocr_text_clean,
         best_text |-> best_text,
         text_source |-> text_source,
         ocr_confidence |-> ocr.ocr_confidence,
         word_count |-> Len(Split(best_text))]

-----------------------------------------------------------------------------
(* OCRService._calculate_confidence and OCRService.extract_text_from_pdf *)

\* faulty variant of NativeConfidence
NativeConfidence_Low == 95 - 5
\* confidence = 95 for native text
NativeConfidence == 95
\* faulty variant of HybridConfidence
HybridConfidence_None == 70 - 70
\* confidence = 70 for hybrid
HybridConfidence == 70

\* the confidence _calculate_confidence gives a page
PageConfidence(page_data) ==
    CASE page_data.text_source = "native" -> Fraction(NativeConfidence, 1)
      [] page_data.text_source = "ocr" -> page_data.ocr_confidence
      [] OTHER -> Fraction(HybridConfidence, 1)

\* OCRService._calculate_confidence
CalculateConfidence(pages) ==
    LET acc[k \in 0..Len(pages)] ==
            IF k = 0
            THEN [total_confidence |-> Fraction(0, 1), total_weight |-> 0]
            ELSE IF pages[k].word_count > 0
            THEN [total_confidence |->
                      FracPlus(acc[k - 1].total_confidence,
                               FracTimes(PageConfidence(pages[k]),
                                         pages[k].word_count)),
                  total_weight |-> acc[k - 1].total_weight + pages[k].word_count]
            ELSE acc[k - 1]
        end == acc[Len(pages)]
    IN  IF pages = <<>> THEN Fraction(0, 1)
        ELSE IF end.total_weight > 0
        THEN FracOver(end.total_confidence, end.total_weight)
        ELSE Fraction(0, 1)

\* faulty variant of IsScanned: native text of exactly 10% counts as scanned
IsScanned_Inclusive(total_native_text, total_ocr_text) ==
    10 * total_native_text <= total_ocr_text

\* total_native_text < (total_ocr_text * 0.1)
IsScanned(total_native_text, total_ocr_text) ==
    10 * total_native_text < total_ocr_text

\* the dictionary extract_text_from_pdf returns
Extraction(pages) ==
    LET total_native_text == Sum([k \in DOMAIN pages |-> Len(pages[k].native_text)])
        total_ocr_text == Sum([k \in DOMAIN pages |-> Len(pages[k].ocr_text)])
    IN  [pages |-> pages,
         total_pages |-> Len(pages),
         native_text_length |-> total_native_text,
         ocr_text_length |-> total_ocr_text,
         is_scanned_document |-> IsScanned(total_native_text, total_ocr_text),
         confidence_score |-> CalculateConfidence(pages)]

\* an exception leaves the function
Raised(error) == [raised |-> error]

\* most pages of a document handed to extract_text_from_pdf
MaxOcrPages == 2

\* x, n times
Repeat(x, n) == [k \in 1..n |-> x]

The == <<"T", "h", "e">>
Hello == <<"H", "e", "l", "l", "o">>
Number == <<"1", "2", "3", "4">>

\* what page.get_text() gives: "The Hello"
NativeShort == Join(<<" ">>, <<The, Hello>>)
\* ten words on ten lines, 57 characters once cleaned
NativeLong == Join(<<"\n">>, <<The>> \o Repeat(Hello, 9)) \o <<"\n">>
\* eleven numbers, two spaces apart
NativeNumbers == Join(<<" ", " ">>, Repeat(Number, 11))
\* ten words, none of them a common word
NativeNoCommon == Join(<<" ">>, Repeat(Hello, 10))
\* a readable text of exactly 50 characters
NativeFifty == Join(<<" ">>, <<The>> \o Repeat(Hello, 7) \o <<Number>>)

\* what pytesseract.image_to_data gives: no box at all
OcrNothing == Some([text |-> <<>>, conf |-> <<>>])
\* five words of confidence 80 on average, and a box without text
OcrGood ==
    Some([text |-> <<<<>>, Hello, Number, Hello, Number, Hello>>,
          conf |-> <<Some(0 - 1), Some(90), Some(70), Some(80), Some(80), Some(80)>>])
\* two words of confidence exactly 60
OcrSixty == Some([text |-> <<Hello, Hello>>, conf |-> <<Some(60), Some(60)>>])
\* a text of exactly 10 characters
OcrTen == Some([text |-> <<Hello, Number>>, conf |-> <<Some(90), Some(90)>>])
\* a confidence that int() rejects
OcrBadConf ==
    Some([text |-> <<Hello, Hello, Hello>>, conf |-> <<Some(90), None, Some(90)>>])
\* an average confidence that is no integer
OcrFraction ==
    Some([text |-> <<Hello, Number, The>>, conf |-> <<Some(61), Some(62), Some(100)>>])

\* the pages with native text n and each of the OCR outcomes os (None: the
\* engine raises)
PagesOf(n, os) == {[native_text |-> n, ocr_data |-> o] : o \in os}

\* the pages of the sample documents
OcrPages ==
    PagesOf(<<>>, {None, OcrNothing, OcrGood, OcrSixty, OcrTen, OcrBadConf,
                   OcrFraction})
    \cup PagesOf(<<"1">>, {OcrTen})
    \cup PagesOf(NativeShort, {OcrNothing, OcrSixty, OcrTen, OcrBadConf})
    \cup PagesOf(NativeLong, {None, OcrGood, OcrBadConf})
    \cup PagesOf(NativeNumbers, {OcrNothing, OcrGood})
    \cup PagesOf(NativeNoCommon, {None, OcrFraction})
    \cup PagesOf(NativeFifty, {OcrNothing, OcrGood})

\* doc = fitz.open(pdf_path); pages_data = []
OcrOpen ==
    /\ pc = "ocr_start"
    /\ doc' = input_files[1]
    /\ pages_data' = <<>>
    /\ open_docs' = open_docs \cup {"doc"}
    /\ pc' = "ocr_loop"
    /\ UNCHANGED <<split_config, merge_config, operation_data, input_files, page,
                   total_pages, output_files, merged_doc, toc, i, session_dir,
                   label_page_num, result, text_arg, page_num_arg,
                   request, response, status_info, upload_dir>>

\* an exception reaches extract_text_from_pdf's except branch, which logs it
\* and raises it again: nothing is closed there
OcrFails(error) ==
    /\ pc' = "done"
    /\ result' = Raised(error)
    /\ UNCHANGED <<split_config, merge_config, operation_data, input_files, page,
                   doc, total_pages, output_files, merged_doc, toc, i, open_docs,
                   session_dir, label_page_num, text_arg, pages_data,
                   page_num_arg,
                   request, response, status_info, upload_dir>>

\* fitz.open(pdf_path) raises
OcrOpenRaises ==
    /\ pc = "ocr_start"
    /\ OcrFails("ResourceIO")

\* page = doc[page_num]; pages_data.append(self._process_page(page, page_num))
OcrProcessPage ==
    /\ pc = "ocr_loop"
    /\ Len(pages_data) < Len(doc)
    /\ pages_data' = Append(pages_data,
                            ProcessPage(doc[Len(pages_data) + 1], Len(pages_data)))
    /\ UNCHANGED <<pc, split_config, merge_config, operation_data, input_files,
                   page, doc, total_pages, output_files, merged_doc, toc, i,
                   open_docs, session_dir, label_page_num, result, text_arg,
                   page_num_arg,
                   request, response, status_info, upload_dir>>

\* a call of _process_page outside its try block raises (get_text,
\* get_pixmap, Image.open, get_images)
OcrPageRaises ==
    /\ pc = "ocr_loop"
    /\ Len(pages_data) < Len(doc)
    /\ OcrFails("ResourceIO")

\* doc.close(); return {...}
OcrReturn ==
    /\ pc = "ocr_loop"
    /\ Len(pages_data) = Len(doc)
    /\ open_docs' = open_docs \ {"doc"}
    /\ result' = Extraction(pages_data)
    /\ pc' = "done"
    /\ UNCHANGED <<split_config, merge_config, operation_data, input_files, page,
                   doc, total_pages, output_files, merged_doc, toc, i, session_dir,
                   label_page_num, text_arg, pages_data, page_num_arg,
                   request, response, status_info, upload_dir>>

InitOcr ==
    /\ pc = "ocr_start"
    /\ split_config = EmptyDict
    /\ merge_config = EmptyDict
    /\ operation_data = EmptyDict
    /\ input_files \in {<<d>> : d \in SeqsUpTo(OcrPages, MaxOcrPages)}
    /\ page = 0
    /\ doc = <<>>
    /\ total_pages = 0
    /\ output_files = <<>>
    /\ merged_doc = <<>>
    /\ toc = <<>>
    /\ i = 0
    /\ open_docs = {}
    /\ session_dir = EmptyDict
    /\ label_page_num = 0
    /\ result = NoResult
    /\ text_arg = <<>>
    /\ pages_data = <<>>
    /\ page_num_arg = 0
    /\ request = EmptyDict
    /\ response = NoResult
    /\ status_info = NoResult
    /\ upload_dir = EmptyDict

NextOcr ==
    \/ OcrOpen
    \/ OcrOpenRaises
    \/ OcrProcessPage
    \/ OcrPageRaises
    \/ OcrReturn

SpecOcr == InitOcr /\ [][NextOcr]_vars

-----------------------------------------------------------------------------
(* Properties of extract_text_from_pdf, checked under SpecOcr *)

\* extract_text_from_pdf has returned its dictionary
OcrDone == pc = "done" /\ "pages" \in DOMAIN result

\* the native text of a page record meets the thresholds of 'native'
NativeMeets(p) == Len(p.native_text) > 50 /\ IsReadableText(p.native_text)

\* the OCR text of a page record meets the thresholds of 'ocr'
OcrMeets(p) == Len(p.ocr_text) > 10 /\ p.ocr_confidence[1] > 60 * p.ocr_confidence[2]

\* C13: on every page record, text_source is 'native' with the cleaned
\* native text as best_text exactly when that text is longer than 50 and
\* readable; otherwise 'ocr' with the cleaned OCR text exactly when that
\* text is longer than 10 and its confidence above 60; otherwise 'hybrid'
\* with the longer of the two cleaned texts; word_count counts the words of
\* best_text
C13_SourceSelection ==
    \A k \in DOMAIN pages_data :
        LET p == pages_data[k]
        IN  /\ p.native_text = CleanText(doc[k].native_text)
            /\ p.text_source \in {"native", "ocr", "hybrid"}
            /\ p.text_source = "native" <=> NativeMeets(p)
            /\ p.text_source = "ocr" <=> (~NativeMeets(p) /\ OcrMeets(p))
            /\ p.text_source = "native" => p.best_text = p.native_text
            /\ p.text_source = "ocr" => p.best_text = p.ocr_text
            /\ p.text_source = "hybrid" =>
                  /\ p.best_text \in {p.native_text, p.ocr_text}
                  /\ Len(p.best_text) >= Len(p.native_text)
                  /\ Len(p.best_text) >= Len(p.ocr_text)
            /\ p.word_count = Cardinality(WordStarts(p.best_text))

\* a page whose native text and OCR text both meet their thresholds was
\* reported as 'native'
C13_Witness ==
    \E k \in DOMAIN pages_data :
        /\ NativeMeets(pages_data[k])
        /\ OcrMeets(pages_data[k])
        /\ pages_data[k].text_source = "native"
        /\ pages_data[k].word_count = 10

\* the sum of the lengths of the field of every page record
RECURSIVE TotalLength(_, _)
TotalLength(pages, field) ==
    IF pages = <<>> THEN 0
    ELSE Len(Head(pages)[field]) + TotalLength(Tail(pages), field)

\* C15: native_text_length and ocr_text_length are the sums over the pages
\* of the cleaned native and OCR text lengths, and is_scanned_document is
\* true exactly when native_text_length is strictly less than a tenth of
\* ocr_text_length: false at native 1 / OCR 10 and when both are 0
C15_ScannedDocument ==
    OcrDone =>
       /\ result.native_text_length = TotalLength(result.pages, "native_text")
       /\ result.ocr_text_length = TotalLength(result.pages, "ocr_text")
       /\ \A k \in DOMAIN result.pages :
             result.pages[k].native_text = CleanText(doc[k].native_text)
       /\ result.is_scanned_document =
             (10 * result.native_text_length < result.ocr_text_length)
       /\ (result.native_text_length = 1 /\ result.ocr_text_length = 10)
             => result.is_scanned_document = FALSE
       /\ (result.native_text_length = 0 /\ result.ocr_text_length = 0)
             => result.is_scanned_document = FALSE

\* a document with 1 character of native text and 10 of OCR text was
\* reported as not scanned
C15_Witness ==
    /\ OcrDone
    /\ result.native_text_length = 1
    /\ result.ocr_text_length = 10
    /\ result.is_scanned_document = FALSE

\* the page records with at least one word
Contributing(pages) == SelectSeq(pages, LAMBDA p : p.word_count > 0)

\* the confidence the score gives a page, as numerator and denominator
ScoredConfidence(p) ==
    CASE p.text_source = "native" -> <<95, 1>>
      [] p.text_source = "ocr" -> p.ocr_confidence
      [] p.text_source = "hybrid" -> <<70, 1>>

\* the product of the denominators of the pages' confidences
RECURSIVE Denominator(_)
Denominator(pages) ==
    IF pages = <<>> THEN 1
    ELSE ScoredConfidence(Head(pages))[2] * Denominator(Tail(pages))

\* den times the sum over the pages of confidence x word_count, for den a
\* multiple of every denominator
RECURSIVE WeightedSum(_, _)
WeightedSum(pages, den) ==
    IF pages = <<>> THEN 0
    ELSE ScoredConfidence(Head(pages))[1] * Head(pages).word_count
            * (den \div ScoredConfidence(Head(pages))[2])
         + WeightedSum(Tail(pages), den)

\* the sum of the pages' word counts
RECURSIVE TotalWords(_)
TotalWords(pages) ==
    IF pages = <<>> THEN 0 ELSE Head(pages).word_count + TotalWords(Tail(pages))

\* C16: confidence_score is the sum over the pages with words of page
\* confidence x word_count (95 native, the measured confidence for ocr, 70
\* hybrid) divided by the sum of those word counts; pages without words
\* change nothing; a 10-word native page and a 5-word OCR page at
\* confidence 80 give (95*10 + 80*5)/15 = 90
C16_WeightedAverage ==
    OcrDone =>
       LET with_words == Contributing(result.pages)
           den == Denominator(with_words)
           score == result.confidence_score
       IN  /\ with_words # <<>> =>
                score[1] * den * TotalWords(with_words)
                   = score[2] * WeightedSum(with_words, den)
           /\ score = CalculateConfidence(with_words)
           /\ (/\ Len(with_words) = 2
               /\ with_words[1].text_source = "native"
               /\ with_words[1].word_count = 10
               /\ with_words[2].text_source = "ocr"
               /\ with_words[2].word_count = 5
               /\ with_words[2].ocr_confidence = <<80, 1>>)
                 => score = <<90, 1>>

\* the document of a 10-word native page and a 5-word OCR page at
\* confidence 80 was scored
C16_Witness ==
    /\ OcrDone
    /\ Len(result.pages) = 2
    /\ result.pages[1].text_source = "native"
    /\ result.pages[1].word_count = 10
    /\ result.pages[2].text_source = "ocr"
    /\ result.pages[2].word_count = 5
    /\ result.pages[2].ocr_confidence = <<80, 1>>
    /\ result.confidence_score = <<90, 1>>

\* C17: confidence_score is 0 exactly when the document has no page or no
\* page has a word; as soon as one page has a word the score is above 0 and
\* at most 100
C17_ScoreZero ==
    OcrDone =>
       LET score == result.confidence_score
           no_word == \A k \in DOMAIN result.pages : result.pages[k].word_count = 0
       IN  /\ score[1] = 0 <=> (result.pages = <<>> \/ no_word)
           /\ ~no_word => (score[1] > 0 /\ score[1] <= 100 * score[2])

\* a document of one page without words and one hybrid page with words was
\* scored above 0
C17_Witness ==
    /\ OcrDone
    /\ Len(result.pages) = 2
    /\ result.pages[1].word_count = 0
    /\ result.pages[2].word_count > 0
    /\ result.pages[2].text_source = "hybrid"
    /\ result.confidence_score[1] > 0

\* the OCR step of page k of the document failed: the engine raised, or a
\* confidence could not be converted
OcrStepFailed(k) ==
    \/ doc[k].ocr_data = None
    \/ ConfRaises(doc[k].ocr_data[1])

\* C18: a page whose OCR step failed at any point is reported with empty
\* OCR text and ocr_confidence 0 and a text_source of native or hybrid, and
\* every page of the document is in the result (violated: the OCR text is
\* assigned before the confidences are computed, so a failure there leaves
\* the recognised text in the page record)
C18_OcrFailureDegrades ==
    OcrDone =>
       /\ result.total_pages = Len(doc)
       /\ Len(result.pages) = Len(doc)
       /\ \A k \in DOMAIN doc :
             OcrStepFailed(k) =>
                /\ result.pages[k].ocr_text = <<>>
                /\ result.pages[k].ocr_confidence[1] = 0
                /\ result.pages[k].text_source \in {"native", "hybrid"}

-----------------------------------------------------------------------------
(* OCRService.extract_text_with_positions *)

\* page.get_text("dict")["blocks"] of the sample pages: no block; a text
\* block with one span; a text block with a span and a blank span, and an
\* image block (type 1)
SampleBlocks ==
    { <<>>,
      <<[type |-> 0, spans |-> <<Hello>>]>>,
      <<[type |-> 0, spans |-> <<The, <<" ">>>>], [type |-> 1, spans |-> <<>>]>> }

\* the documents handed over: 1..MaxPages pages, page k recorded as such
PositionDocs ==
    UNION {{[k \in 1..n |-> [pno |-> k, blocks |-> b[k]]] :
               b \in [1..n -> SampleBlocks]} : n \in 1..MaxPages}

\* the spans of the text blocks of a page, in order
RECURSIVE SpansOf(_)
SpansOf(blocks) ==
    IF blocks = <<>> THEN <<>>
    ELSE (IF Head(blocks).type = 0 THEN Head(blocks).spans ELSE <<>>)
         \o SpansOf(Tail(blocks))

\* the elements appended for a page: one for each span of a text block
\* whose text is not blank (position, font, size and flags are left out; pno
\* records the page the span was read from)
TextElements(pg) ==
    LET kept == SelectSeq(SpansOf(pg.blocks), LAMBDA span : Strip(span) # <<>>)
    IN  [k \in DOMAIN kept |-> [text |-> kept[k], pno |-> pg.pno]]

\* an exception reaches extract_text_with_positions's except branch, which
\* logs it and raises it again: nothing is closed there
PositionsFails(error) ==
    /\ pc' = "done"
    /\ result' = Raised(error)
    /\ UNCHANGED <<split_config, merge_config, operation_data, input_files, page,
                   doc, total_pages, output_files, merged_doc, toc, i, open_docs,
                   session_dir, label_page_num, text_arg, pages_data,
                   page_num_arg,
                   request, response, status_info, upload_dir>>

\* doc = fitz.open(pdf_path)
PositionsOpen ==
    /\ pc = "positions_start"
    /\ doc' = input_files[1]
    /\ open_docs' = open_docs \cup {"doc"}
    /\ pc' = "positions_load"
    /\ UNCHANGED <<split_config, merge_config, operation_data, input_files, page,
                   total_pages, output_files, merged_doc, toc, i, session_dir,
                   label_page_num, result, text_arg, pages_data, page_num_arg,
                   request, response, status_info, upload_dir>>

\* fitz.open(pdf_path) raises
PositionsOpenRaises ==
    /\ pc = "positions_start"
    /\ PositionsFails("ResourceIO")

\* page = doc[page_num]: an IndexError for page_num >= len(doc), else
\* doc.load_page(page_num)
PositionsLoadPage ==
    /\ pc = "positions_load"
    /\ IF LoadPageRaises(page_num_arg, Len(doc))
       THEN PositionsFails("IndexError")
       ELSE /\ page' = LoadPage(page_num_arg, Len(doc))
            /\ pc' = "positions_read"
            /\ UNCHANGED <<split_config, merge_config, operation_data, input_files,
                           doc, total_pages, output_files, merged_doc, toc, i,
                           open_docs, session_dir, label_page_num, result,
                           text_arg, pages_data, page_num_arg,
                   request, response, status_info, upload_dir>>

\* text_dict = page.get_text("dict") raises
PositionsReadRaises ==
    /\ pc = "positions_read"
    /\ PositionsFails("ResourceIO")

\* the loops over blocks, lines and spans; doc.close(); return text_elements
PositionsReturn ==
    /\ pc = "positions_read"
    /\ open_docs' = open_docs \ {"doc"}
    /\ result' = [text_elements |-> TextElements(doc[page + 1])]
    /\ pc' = "done"
    /\ UNCHANGED <<split_config, merge_config, operation_data, input_files, page,
                   doc, total_pages, output_files, merged_doc, toc, i, session_dir,
                   label_page_num, text_arg, pages_data, page_num_arg,
                   request, response, status_info, upload_dir>>

InitPositions ==
    /\ pc = "positions_start"
    /\ split_config = EmptyDict
    /\ merge_config = EmptyDict
    /\ operation_data = EmptyDict
    /\ input_files \in {<<d>> : d \in PositionDocs}
    /\ page = 0
    /\ doc = <<>>
    /\ total_pages = 0
    /\ output_files = <<>>
    /\ merged_doc = <<>>
    /\ toc = <<>>
    /\ i = 0
    /\ open_docs = {}
    /\ session_dir = EmptyDict
    /\ label_page_num = 0
    /\ result = NoResult
    /\ text_arg = <<>>
    /\ pages_data = <<>>
    /\ page_num_arg \in (0 - (MaxPages + 1))..(MaxPages + 1)
    /\ request = EmptyDict
    /\ response = NoResult
    /\ status_info = NoResult
    /\ upload_dir = EmptyDict

NextPositions ==
    \/ PositionsOpen
    \/ PositionsOpenRaises
    \/ PositionsLoadPage
    \/ PositionsReadRaises
    \/ PositionsReturn

SpecPositions == InitPositions /\ [][NextPositions]_vars

-----------------------------------------------------------------------------
(* Properties of extract_text_with_positions, checked under SpecPositions *)

\* C20: for every page_num outside 0..page_count-1, negative ones included,
\* extract_text_with_positions fails and returns no text elements (violated:
\* a negative page_num is counted from the end of the
\* document and the elements of that page are returned)
C20_OutOfRangeFails ==
    (pc = "done" /\ page_num_arg \notin 0..(Len(input_files[1]) - 1))
    => /\ "raised" \in DOMAIN result
       /\ "text_elements" \notin DOMAIN result

-----------------------------------------------------------------------------
(* Further properties of edit_pdf (SpecEdit), split_pdf (SpecSplit) and
   extract_text_from_pdf (SpecOcr) *)

\* the field is left out of the edit: absent from operation_data, or None as
\* the edit endpoint passes a form field that was not sent
Omitted(data, field) == field \notin DOMAIN data \/ data[field] = None

\* C21: an add_image edit on an existing page whose width and/or height is
\* omitted (absent, or None from the endpoint) succeeds and places the
\* image at (x, y) with the image's own width / height for the omitted
\* dimension (violated: a None width or height is not replaced by the
\* default and x + None raises)
C21_ImageDefaultSize ==
    (/\ EditDone
     /\ operation_data["operation_type"] = "add_image"
     /\ {"image_path", "x", "y"} \subseteq DOMAIN operation_data
     /\ operation_data["page_number"] \in 1..Len(input_files[1])
     /\ (Omitted(operation_data, "width") \/ Omitted(operation_data, "height")))
    => /\ result.success = TRUE \/ result.error = "ResourceIO"
       /\ result.success = TRUE =>
             \E e \in Range(doc[operation_data["page_number"]].content) :
                /\ e.kind = "add_image"
                /\ e.x = operation_data["x"] /\ e.y = operation_data["y"]
                /\ Omitted(operation_data, "width") => e.w = ImgWidth
                /\ Omitted(operation_data, "height") => e.h = ImgHeight

\* C29: in a successful split result the entries of output_files are
\* pairwise distinct and file_count is the number of output files in the
\* session directory (violated: a page or range requested twice is written
\* to the same file twice and listed and counted twice)
C29_DistinctOutputs ==
    (SplitDone /\ result.success = TRUE)
    => /\ \A j, k \in DOMAIN result.output_files :
             j # k => result.output_files[j] # result.output_files[k]
       /\ result.file_count = Cardinality(DOMAIN session_dir)

\* C30: when split_pdf returns a failure record for a request it rejects,
\* the session directory holds the same files as before the call, that is
\* none (violated: the partitions written before the failing one stay)
C30_FailureWritesNothing ==
    (SplitDone /\ SplitRejected) => DOMAIN session_dir = {}

\* C27: extract_text_from_pdf has closed the document it opened whenever it
\* is left, by return or by exception, and an exception returns no page
\* records (violated: the except branch raises again without closing)
C27_ExtractionClosesDocument ==
    pc = "done" =>
       /\ open_docs = {}
       /\ "raised" \in DOMAIN result => "pages" \notin DOMAIN result

-----------------------------------------------------------------------------
(* The PDF operations endpoints
   (src/app/api/v1/endpoints/pdf_operations_controller.py).  An endpoint
   stores the upload in the session directory, builds the service's
   argument, awaits the service and turns its record into a response.  The
   body of each endpoint is one try block whose except branch catches
   Exception, HTTPException included. *)

\* an uploaded file name: stem and suffix
FileNames == [stem : {"doc"}, suffix : {".pdf", ".PDF", ".txt"}]

\* Path(filename).suffix.lower()
LowerSuffix(filename) == IF filename.suffix = ".PDF" THEN ".pdf" ELSE filename.suffix

\* validate_file_extension(filename)
ValidateFileExtension(filename) == LowerSuffix(filename) = ".pdf"

\* the upload number k as stored in the session directory.  Its name is
\* sanitize_filename(filename), which ends in ".pdf" whatever was uploaded
InputFile(k) == [kind |-> "input", a |-> k, b |-> 0]

\* raise HTTPException(status_code = code) as it leaves the endpoint
HttpError(code) == [status_code |-> code]

\* except Exception as e: raise HTTPException(status_code = 500, ...), for
\* an exception raised in the try block (an HTTPException of any code, or
\* any other exception, code 0)
ExceptBranch(code) == HttpError(500)

\* return OperationResponse(success = True, file_id = ..., ...)
OperationResponse(file_id, metadata) ==
    [status_code |-> 200, success |-> TRUE, file_id |-> file_id,
     metadata |-> metadata]

\* the endpoint answers without having called the service
ApiAnswers(answer) ==
    /\ response' = answer
    /\ pc' = "responded"
    /\ UNCHANGED <<split_config, merge_config, operation_data, input_files, page,
                   doc, total_pages, output_files, merged_doc, toc, i, open_docs,
                   session_dir, label_page_num, result, text_arg, pages_data,
                   page_num_arg, request, status_info, upload_dir>>

\* the requests to /edit: page_number is at least 1 (ge=1 is checked before
\* the endpoint runs); an optional form field not sent is None
EditForms ==
    [endpoint : {"edit"},
     filename : FileNames,
     operation_type : {"add_text", "add_image", "add_annotation", "remove_element"},
     page_number : 1..(MaxPages + 1),
     text : {None, Some("text")},
     x : {None, Some(EditX)},
     y : {None, Some(EditY)},
     image_file : BOOLEAN,
     width : {None, Some(EditWidth)},
     height : {None, Some(EditHeight)}]

\* the add_text / add_image request lacks a required parameter
EditParametersMissing(form) ==
    CASE form.operation_type = "add_text" ->
            form.text = None \/ form.x = None \/ form.y = None
      [] form.operation_type = "add_image" ->
            ~form.image_file \/ form.x = None \/ form.y = None
      [] OTHER -> FALSE

\* operation_data as the endpoint builds it (session_id, font_family, color
\* and rotation, which the model of edit_pdf does not read, are left out)
EditOperationData(form) ==
    DictUpdate(
        [operation_type |-> form.operation_type, page_number |-> form.page_number],
        CASE form.operation_type = "add_text" ->
                [text |-> form.text[1], x |-> form.x[1], y |-> form.y[1],
                 font_size |-> 12]
          [] form.operation_type = "add_image" ->
                [image_path |-> "image", x |-> form.x[1], y |-> form.y[1],
                 width |-> form.width, height |-> form.height]
          [] OTHER -> EmptyDict)

\* the /edit endpoint up to its call of pdf_service.edit_pdf
ApiEdit ==
    /\ pc = "api_start"
    /\ request.endpoint = "edit"
    /\ IF ~ValidateFileExtension(request.filename)
       THEN ApiAnswers(ExceptBranch(400))
       ELSE IF EditParametersMissing(request)
       THEN /\ response' = ExceptBranch(400)
            /\ pc' = "responded"
            /\ session_dir' = Save(session_dir, InputFile(0), input_files[1])
            /\ UNCHANGED <<split_config, merge_config, operation_data,
                           input_files, page, doc, total_pages, output_files,
                           merged_doc, toc, i, open_docs, label_page_num, result,
                           text_arg, pages_data, page_num_arg, request,
                           status_info, upload_dir>>
       ELSE /\ operation_data' = EditOperationData(request)
            /\ session_dir' = Save(session_dir, InputFile(0), input_files[1])
            /\ pc' = "edit_start"
            /\ UNCHANGED <<split_config, merge_config, input_files, page, doc,
                           total_pages, output_files, merged_doc, toc, i,
                           open_docs, label_page_num, result, text_arg,
                           pages_data, page_num_arg, request, response,
                           status_info, upload_dir>>

\* the endpoint after the service returned: an OperationResponse, or
\* raise HTTPException(500), which the except branch catches
ApiRespond(metadata) ==
    /\ pc = "done"
    /\ response' = IF result.success
                   THEN OperationResponse(result.file_id, metadata)
                   ELSE ExceptBranch(500)
    /\ pc' = "responded"
    /\ UNCHANGED <<split_config, merge_config, operation_data, input_files, page,
                   doc, total_pages, output_files, merged_doc, toc, i, open_docs,
                   session_dir, label_page_num, result, text_arg, pages_data,
                   page_num_arg, request, status_info, upload_dir>>

\* /edit answers
ApiEditRespond ==
    /\ request.endpoint = "edit"
    /\ ApiRespond(DictGet(result, "metadata", EmptyDict))

\* the separator of the list-valued form fields
Comma == ","

\* int(s.strip()) does not raise (signs are not among the sample strings)
IntParses(s) == IntOk(Strip(s))

\* [int(p.strip()) for p in s.split(",")] does not raise
IntListParses(s) ==
    \A k \in DOMAIN StrSplit(s, Comma) : IntParses(StrSplit(s, Comma)[k])

\* [int(p.strip()) for p in s.split(",")]
IntListOf(s) ==
    [k \in DOMAIN StrSplit(s, Comma) |-> IntOf(Strip(StrSplit(s, Comma)[k]))]

\* [r.strip() for r in s.split(",")]
StripListOf(s) == [k \in DOMAIN StrSplit(s, Comma) |-> Strip(StrSplit(s, Comma)[k])]

\* the pages fields sent: "1", "1,2", "1, 1", "2,x", "4"
PagesFields ==
    { <<"1">>, <<"1", ",", "2">>, <<"1", ",", " ", "1">>, <<"2", ",", "x">>,
      <<"4">> }

\* the page_ranges fields sent: "1-2", "1-1,2-3", "1-1,x-2", "1-1, 1-1"
PageRangesFields ==
    { <<"1", "-", "2">>,
      <<"1", "-", "1", ",", "2", "-", "3">>,
      <<"1", "-", "1", ",", "x", "-", "2">>,
      <<"1", "-", "1", ",", " ", "1", "-", "1">> }

\* the requests to /split: the field of the split_type is sent or not
\* (max_pages_per_file is at least 1, ge=1)
SplitForms ==
    [endpoint : {"split"}, filename : FileNames, split_type : {"pages"},
     pages : {None} \cup {Some(s) : s \in PagesFields}]
    \cup [endpoint : {"split"}, filename : FileNames, split_type : {"range"},
          page_ranges : {None} \cup {Some(s) : s \in PageRangesFields}]
    \cup [endpoint : {"split"}, filename : FileNames, split_type : {"size"},
          max_pages_per_file : {None, Some(1), Some(2)}]
    \cup [endpoint : {"split"}, filename : FileNames, split_type : {"bookmark"}]

\* the pages field makes int() raise
SplitParseRaises(form) ==
    /\ form.split_type = "pages"
    /\ form.pages # None
    /\ ~IntListParses(form.pages[1])

\* split_config as the endpoint builds it (session_id left out)
SplitConfigOf(form) ==
    CASE form.split_type = "pages" /\ form.pages # None ->
            [split_type |-> "pages", pages |-> IntListOf(form.pages[1])]
      [] form.split_type = "range" /\ form.page_ranges # None ->
            [split_type |-> "range", page_ranges |-> StripListOf(form.page_ranges[1])]
      [] form.split_type = "size" /\ form.max_pages_per_file # None ->
            [split_type |-> "size", max_pages_per_file |-> form.max_pages_per_file[1]]
      [] OTHER -> [split_type |-> form.split_type]

\* the /split endpoint up to its call of pdf_service.split_pdf
ApiSplit ==
    /\ pc = "api_start"
    /\ request.endpoint = "split"
    /\ IF ~ValidateFileExtension(request.filename)
       THEN ApiAnswers(ExceptBranch(400))
       ELSE IF SplitParseRaises(request)
       THEN /\ response' = ExceptBranch(0)
            /\ pc' = "responded"
            /\ session_dir' = Save(session_dir, InputFile(0), input_files[1])
            /\ UNCHANGED <<split_config, merge_config, operation_data,
                           input_files, page, doc, total_pages, output_files,
                           merged_doc, toc, i, open_docs, label_page_num, result,
                           text_arg, pages_data, page_num_arg, request,
                           status_info, upload_dir>>
       ELSE /\ split_config' = SplitConfigOf(request)
            /\ session_dir' = Save(session_dir, InputFile(0), input_files[1])
            /\ pc' = "split_start"
            /\ UNCHANGED <<merge_config, operation_data, input_files, page, doc,
                           total_pages, output_files, merged_doc, toc, i,
                           open_docs, label_page_num, result, text_arg,
                           pages_data, page_num_arg, request, response,
                           status_info, upload_dir>>

\* /split answers
ApiSplitRespond ==
    /\ request.endpoint = "split"
    /\ ApiRespond([file_count |-> DictGet(result, "file_count", 0),
                   split_type |-> request.split_type,
                   output_files |-> DictGet(result, "output_files", <<>>)])

\* most files of one /merge request
MaxUploads == 3

\* the merge_order fields sent: "0,1", "1,0", "0,0", "0,2", "0", "1,0,2",
\* "0,x"
MergeOrderFields ==
    { <<"0", ",", "1">>, <<"1", ",", "0">>, <<"0", ",", "0">>,
      <<"0", ",", "2">>, <<"0">>, <<"1", ",", "0", ",", "2">>,
      <<"0", ",", "x">> }

\* the upload number d of a /merge request, whose first upload has `first`
\* pages and the others one page each
Upload(d, first) == SourceDoc(d, IF d = 1 THEN first ELSE 1)

\* the requests to /merge: 1..MaxUploads files, all named *.pdf or the
\* first one not
MergeForms ==
    [endpoint : {"merge"},
     files : {[d \in 1..n |-> Upload(d, first)] : n \in 1..MaxUploads, first \in 0..1},
     filename : FileNames,
     merge_order : {None} \cup {Some(s) : s \in MergeOrderFields},
     bookmark_structure : BOOLEAN,
     page_numbering : BOOLEAN]

\* the exception the merge_order handling raises: the ValueError of int(),
\* the HTTPException(400) for a list of the wrong length, the IndexError of
\* input_files[i]; "none" is no exception
MergeOrderError(form) ==
    IF form.merge_order = None THEN "none"
    ELSE IF ~IntListParses(form.merge_order[1]) THEN "ValueError"
    ELSE IF Len(IntListOf(form.merge_order[1])) # Len(form.files) THEN "400"
    ELSE IF \E k \in DOMAIN IntListOf(form.merge_order[1]) :
                IntListOf(form.merge_order[1])[k] >= Len(form.files)
    THEN "IndexError"
    ELSE "none"

\* input_files = [input_files[i] for i in order_indices]
Reordered(files, order_indices) ==
    [k \in DOMAIN order_indices |-> files[order_indices[k] + 1]]

\* the session directory after the uploads were stored as {i}_{name}
StoreUploads(dir, files) ==
    [f \in DOMAIN dir \cup {InputFile(k - 1) : k \in DOMAIN files} |->
        IF f \in DOMAIN dir THEN dir[f] ELSE files[f.a + 1]]

\* the /merge endpoint up to its call of pdf_service.merge_pdfs
ApiMerge ==
    /\ pc = "api_start"
    /\ request.endpoint = "merge"
    /\ IF Len(request.files) < 2 \/ ~ValidateFileExtension(request.filename)
       THEN ApiAnswers(ExceptBranch(400))
       ELSE IF MergeOrderError(request) # "none"
       THEN /\ response' = ExceptBranch(IF MergeOrderError(request) = "400"
                                        THEN 400 ELSE 0)
            /\ pc' = "responded"
            /\ session_dir' = StoreUploads(session_dir, request.files)
            /\ UNCHANGED <<split_config, merge_config, operation_data,
                           input_files, page, doc, total_pages, output_files,
                           merged_doc, toc, i, open_docs, label_page_num, result,
                           text_arg, pages_data, page_num_arg, request,
                           status_info, upload_dir>>
       ELSE /\ input_files' =
                  IF request.merge_order = None THEN request.files
                  ELSE Reordered(request.files, IntListOf(request.merge_order[1]))
            /\ merge_config' = [bookmark_structure |-> request.bookmark_structure,
                                page_numbering |-> request.page_numbering]
            /\ session_dir' = StoreUploads(session_dir, request.files)
            /\ pc' = "merge_start"
            /\ UNCHANGED <<split_config, operation_data, page, doc, total_pages,
                           output_files, merged_doc, toc, i, open_docs,
                           label_page_num, result, text_arg, pages_data,
                           page_num_arg, request, response, status_info,
                           upload_dir>>

\* /merge answers
ApiMergeRespond ==
    /\ request.endpoint = "merge"
    /\ ApiRespond([merged_files |-> Len(request.files),
                   total_pages |-> DictGet(result, "total_pages", 0),
                   bookmark_structure |-> request.bookmark_structure,
                   page_numbering |-> request.page_numbering])

\* the file_id values asked for: the session of the request, and one that
\* no session has
FileIds == {"session_id", "unknown_id"}

\* session_dir.exists(), for the session of the request: the endpoint
\* creates the directory when it stores the upload
SessionDirExists(dir, file_id) == file_id = "session_id" /\ DOMAIN dir # {}

\* list(session_dir.glob("*.pdf")): every file the endpoints and the
\* services put there has a name ending in ".pdf"
PdfFiles(dir) == DOMAIN dir

\* max(pdf_files, key = st_ctime): the file written last.  The uploads are
\* written first, in order, then the outputs of the service, in the order of
\* output_files (creation times taken as distinct)
LatestPdf(dir, outputs) ==
    IF EditedFile \in PdfFiles(dir) THEN EditedFile
    ELSE IF MergedFile \in PdfFiles(dir) THEN MergedFile
    ELSE IF outputs # <<>> THEN outputs[Len(outputs)]
    ELSE InputFile(Cardinality({f \in PdfFiles(dir) : f.kind = "input"}) - 1)

\* get_file_path(file_id)
GetFilePath(dir, outputs, file_id) ==
    IF SessionDirExists(dir, file_id) /\ PdfFiles(dir) # {}
    THEN Some(LatestPdf(dir, outputs))
    ELSE None

\* get_processing_status(file_id)
GetProcessingStatus(dir, file_id) ==
    IF SessionDirExists(dir, file_id)
    THEN IF PdfFiles(dir) # {}
         THEN [status |-> "completed", progress |-> 100]
         ELSE [status |-> "processing", progress |-> 50]
    ELSE [status |-> "not_found", progress |-> 0]

\* where the operation of the request stands: "not_started", "running",
\* "succeeded" or "failed" (an endpoint that answered without a successful
\* service record has failed)
OperationState ==
    IF pc = "api_start" THEN "not_started"
    ELSE IF pc \notin {"done", "responded", "downloaded"} THEN "running"
    ELSE IF "success" \in DOMAIN result /\ result.success = TRUE THEN "succeeded"
    ELSE "failed"

\* GET /status/{file_id}, asked once at any moment; the answer is kept with
\* the state of the operation at that moment
ApiStatus ==
    /\ status_info = NoResult
    /\ \E file_id \in FileIds :
          status_info' =
              DictUpdate(GetProcessingStatus(session_dir, file_id),
                         [file_id |-> file_id, operation |-> OperationState])
    /\ UNCHANGED <<pc, split_config, merge_config, operation_data, input_files,
                   page, doc, total_pages, output_files, merged_doc, toc, i,
                   open_docs, session_dir, label_page_num, result, text_arg,
                   pages_data, page_num_arg, request, response, upload_dir>>

\* return FileResponse(path = file_path, ...): one file
FileResponse(path) == [status_code |-> 200, files |-> {path}]

\* GET /download/{file_id}, after the operation was answered
ApiDownload ==
    /\ pc = "responded"
    /\ \E file_id \in FileIds :
          /\ request' = [endpoint |-> "download", file_id |-> file_id]
          /\ response' =
                IF GetFilePath(session_dir, output_files, file_id) = None
                THEN ExceptBranch(404)
                ELSE FileResponse(GetFilePath(session_dir, output_files, file_id)[1])
    /\ pc' = "downloaded"
    /\ UNCHANGED <<split_config, merge_config, operation_data, input_files, page,
                   doc, total_pages, output_files, merged_doc, toc, i, open_docs,
                   session_dir, label_page_num, result, text_arg, pages_data,
                   page_num_arg, status_info, upload_dir>>

InitApi ==
    /\ pc = "api_start"
    /\ request \in EditForms \cup SplitForms \cup MergeForms
    /\ split_config = EmptyDict
    /\ merge_config = EmptyDict
    /\ operation_data = EmptyDict
    /\ IF request.endpoint = "merge"
       THEN input_files = <<>>
       ELSE \E n \in 1..MaxPages : input_files = <<SourceDoc(1, n)>>
    /\ page = 0
    /\ doc = <<>>
    /\ total_pages = 0
    /\ output_files = <<>>
    /\ merged_doc = <<>>
    /\ toc = <<>>
    /\ i = 0
    /\ open_docs = {}
    /\ session_dir = EmptyDict
    /\ label_page_num = 0
    /\ result = NoResult
    /\ text_arg = <<>>
    /\ pages_data = <<>>
    /\ page_num_arg = 0
    /\ response = NoResult
    /\ status_info = NoResult
    /\ upload_dir = EmptyDict

NextApi ==
    \/ ApiEdit
    \/ ApiEditRespond
    \/ ApiSplit
    \/ ApiSplitRespond
    \/ ApiMerge
    \/ ApiMergeRespond
    \/ ApiStatus
    \/ ApiDownload
    \/ NextEdit
    \/ NextSplit
    \/ NextMerge

SpecApi == InitApi /\ [][NextApi]_vars

-----------------------------------------------------------------------------
(* The standalone backend (src/standalone_backend.py).  Uploads are stored
   in one directory as {file_id}_{sanitized name}; the annotations of a file
   are stored beside them as {file_id}_annotations.json.  The endpoints that
   take a file_id look the file up with upload_dir.glob(f"{file_id}_*") and
   use the first match.  File names and file ids are sequences of
   characters. *)

\* the file ids uuid.uuid4() issues, written short: "u1", "u2"
Uuids == { <<"u", "1">>, <<"u", "2">> }

\* the file_id path parameters sent: the issued ones, "*", "u?", "u1_x", "z"
RequestIds ==
    Uuids \cup { <<"*">>, <<"u", "?">>, <<"u", "1", "_", "x">>, <<"z">> }

\* the names of the files uploaded: "d.pdf", "x d.pdf", "d.txt"
UploadNames ==
    { <<"d", ".", "p", "d", "f">>,
      <<"x", " ", "d", ".", "p", "d", "f">>,
      <<"d", ".", "t", "x", "t">> }

\* the position of the last "." of a name, 0 when there is none
LastDot(name) ==
    IF \E k \in DOMAIN name : name[k] = "."
    THEN CHOOSE k \in DOMAIN name :
            /\ name[k] = "."
            /\ \A j \in DOMAIN name : name[j] = "." => j <= k
    ELSE 0

\* PathLib(filename).suffix: from the last "." on, empty when there is no
\* "." or the name begins with its only "."
PathSuffix(name) ==
    IF LastDot(name) <= 1 THEN <<>> ELSE SubSeq(name, LastDot(name), Len(name))

DotPdf == <<".", "p", "d", "f">>

\* validate_file_extension(filename) of the standalone backend
ValidExtension(filename) ==
    /\ filename # <<>>
    /\ Lower(PathSuffix(filename)) = DotPdf

\* a character that [^\w\-_\.] does not match
IsSafeChar(char) == IsAlpha(char) \/ char \in Digits \cup {"-", "_", "."}

\* filename.endswith('.pdf')
EndsWithPdf(name) ==
    Len(name) >= 4 /\ SubSeq(name, Len(name) - 3, Len(name)) = DotPdf

\* sanitize_filename(filename) of the standalone backend (the sample names
\* hold no directory part)
SanitizeFilename(filename) ==
    LET replaced == [k \in DOMAIN filename |->
                        IF IsSafeChar(filename[k]) THEN filename[k] ELSE "_"]
    IN  IF filename = <<>>
        THEN <<"u", "n", "n", "a", "m", "e", "d", "_", "f", "i", "l", "e">> \o DotPdf
        ELSE IF EndsWithPdf(replaced) THEN replaced ELSE replaced \o DotPdf

\* upload_dir / f"{file_id}_{sanitized_filename}"
StoredName(file_id, filename) == file_id \o <<"_">> \o SanitizeFilename(filename)

\* upload_dir / f"{file_id}_annotations.json"
AnnotationsName(file_id) ==
    file_id \o <<"_", "a", "n", "n", "o", "t", "a", "t", "i", "o", "n", "s",
                 ".", "j", "s", "o", "n">>

\* fnmatch of a name against a glob pattern: "*" matches any run of
\* characters, "?" any one character, any other character itself (the
\* sample patterns hold no "[")
RECURSIVE GlobMatch(_, _)
GlobMatch(pattern, name) ==
    IF pattern = <<>> THEN name = <<>>
    ELSE IF Head(pattern) = "*"
    THEN \/ GlobMatch(Tail(pattern), name)
         \/ name # <<>> /\ GlobMatch(pattern, Tail(name))
    ELSE /\ name # <<>>
         /\ Head(pattern) = "?" \/ Head(pattern) = Head(name)
         /\ GlobMatch(Tail(pattern), Tail(name))

\* list(upload_dir.glob(f"{file_id}_*")), as a set: the order of the list is
\* the order in which the directory is read, which the code does not fix
MatchingFiles(dir, file_id) ==
    {name \in DOMAIN dir : GlobMatch(file_id \o <<"_", "*">>, name)}

\* the ids that upload has issued
IssuedIds(dir) == {dir[name].file_id : name \in {n \in DOMAIN dir : dir[n].kind = "pdf"}}

\* POST /api/v1/files/upload with one file.  The HTTPException(400) of the
\* extension check is raised inside the try block, whose except branch
\* turns it into 500
StandaloneUpload ==
    /\ pc = "serving"
    /\ \E filename \in UploadNames :
          /\ request' = [endpoint |-> "upload", filename |-> filename]
          /\ IF ~ValidExtension(filename)
             THEN /\ response' = HttpError(500)
                  /\ UNCHANGED upload_dir
             ELSE \E file_id \in Uuids \ IssuedIds(upload_dir) :
                     /\ upload_dir' = DictPut(upload_dir, StoredName(file_id, filename),
                                              [kind |-> "pdf", file_id |-> file_id])
                     /\ response' = [status_code |-> 200, file_id |-> file_id]
    /\ UNCHANGED <<pc, split_config, merge_config, operation_data, input_files,
                   page, doc, total_pages, output_files, merged_doc, toc, i,
                   open_docs, session_dir, label_page_num, result, text_arg,
                   pages_data, page_num_arg, status_info>>

\* POST /api/v1/files/{file_id}/annotations
SaveAnnotations ==
    /\ pc = "serving"
    /\ \E file_id \in RequestIds :
          /\ request' = [endpoint |-> "annotations", file_id |-> file_id]
          /\ IF MatchingFiles(upload_dir, file_id) = {}
             THEN /\ response' = HttpError(404)
                  /\ UNCHANGED upload_dir
             ELSE /\ upload_dir' = DictPut(upload_dir, AnnotationsName(file_id),
                                           [kind |-> "annotations", file_id |-> file_id])
                  /\ response' = [status_code |-> 200, file_id |-> file_id]
    /\ UNCHANGED <<pc, split_config, merge_config, operation_data, input_files,
                   page, doc, total_pages, output_files, merged_doc, toc, i,
                   open_docs, session_dir, label_page_num, result, text_arg,
                   pages_data, page_num_arg, status_info>>

\* the answers an endpoint can give for file_id: HTTPException(404) when
\* nothing matches, else one of `codes` for file_path = matching_files[0],
\* which is any of the matching files
ResolveFile(dir, file_id, codes) ==
    IF MatchingFiles(dir, file_id) = {}
    THEN {DictUpdate(HttpError(404), [path |-> None])}
    ELSE {[status_code |-> code, path |-> Some(file_path)] :
             file_path \in MatchingFiles(dir, file_id), code \in codes}

\* GET /api/v1/files/{file_id}/download
StandaloneDownload ==
    /\ pc = "serving"
    /\ \E file_id \in RequestIds :
          /\ request' = [endpoint |-> "download", file_id |-> file_id]
          /\ response' \in ResolveFile(upload_dir, file_id, {200})
    /\ UNCHANGED <<pc, split_config, merge_config, operation_data, input_files,
                   page, doc, total_pages, output_files, merged_doc, toc, i,
                   open_docs, session_dir, label_page_num, result, text_arg,
                   pages_data, page_num_arg, status_info, upload_dir>>

\* GET /api/v1/files/{file_id}/view
StandaloneView ==
    /\ pc = "serving"
    /\ \E file_id \in RequestIds :
          /\ request' = [endpoint |-> "view", file_id |-> file_id]
          /\ response' \in ResolveFile(upload_dir, file_id, {200})
    /\ UNCHANGED <<pc, split_config, merge_config, operation_data, input_files,
                   page, doc, total_pages, output_files, merged_doc, toc, i,
                   open_docs, session_dir, label_page_num, result, text_arg,
                   pages_data, page_num_arg, status_info, upload_dir>>

\* POST /api/v1/files/{file_id}/export
StandaloneExport ==
    /\ pc = "serving"
    /\ \E file_id \in RequestIds :
          /\ request' = [endpoint |-> "export", file_id |-> file_id]
          /\ response' \in ResolveFile(upload_dir, file_id, {200})
    /\ UNCHANGED <<pc, split_config, merge_config, operation_data, input_files,
                   page, doc, total_pages, output_files, merged_doc, toc, i,
                   open_docs, session_dir, label_page_num, result, text_arg,
                   pages_data, page_num_arg, status_info, upload_dir>>

\* POST /api/v1/files/{file_id}/ocr: extract_text_from_pdf(file_path)
\* returns its record, or raises and the endpoint answers 500
StandaloneOcr ==
    /\ pc = "serving"
    /\ \E file_id \in RequestIds :
          /\ request' = [endpoint |-> "ocr", file_id |-> file_id]
          /\ response' \in ResolveFile(upload_dir, file_id, {200, 500})
    /\ UNCHANGED <<pc, split_config, merge_config, operation_data, input_files,
                   page, doc, total_pages, output_files, merged_doc, toc, i,
                   open_docs, session_dir, label_page_num, result, text_arg,
                   pages_data, page_num_arg, status_info, upload_dir>>

InitStandalone ==
    /\ pc = "serving"
    /\ split_config = EmptyDict
    /\ merge_config = EmptyDict
    /\ operation_data = EmptyDict
    /\ input_files = <<>>
    /\ page = 0
    /\ doc = <<>>
    /\ total_pages = 0
    /\ output_files = <<>>
    /\ merged_doc = <<>>
    /\ toc = <<>>
    /\ i = 0
    /\ open_docs = {}
    /\ session_dir = EmptyDict
    /\ label_page_num = 0
    /\ result = NoResult
    /\ text_arg = <<>>
    /\ pages_data = <<>>
    /\ page_num_arg = 0
    /\ request = EmptyDict
    /\ response = NoResult
    /\ status_info = NoResult
    /\ upload_dir = EmptyDict

NextStandalone ==
    \/ StandaloneUpload
    \/ SaveAnnotations
    \/ StandaloneDownload
    \/ StandaloneView
    \/ StandaloneExport
    \/ StandaloneOcr

SpecStandalone == InitStandalone /\ [][NextStandalone]_vars

(***************************************************************************)
(* Properties of the endpoints (SpecApi)                                   *)
(***************************************************************************)

\* the request was an operation request that passed the checks of its
\* upload names
ApiAnswered(endpoint) ==
    /\ pc = "responded"
    /\ request.endpoint = endpoint

\* C22: an /edit request with operation_type add_annotation, an existing
\* page_number and x and y supplied is answered with success (unless the
\* PDF library fails), and the edited file then carries on that page a
\* highlight from (x, y) of the given width and height, 100 and 20 when
\* they are omitted.
C22_AnnotationSucceeds ==
    (/\ ApiAnswered("edit")
     /\ ValidateFileExtension(request.filename)
     /\ request.operation_type = "add_annotation"
     /\ request.page_number \in 1..Len(input_files[1])
     /\ request.x # None
     /\ request.y # None)
    => /\ \/ response.status_code = 200
          \/ DictGet(result, "error", "none") = "ResourceIO"
       /\ response.status_code = 200 =>
             /\ EditedFile \in DOMAIN session_dir
             /\ \E e \in Range(session_dir[EditedFile][request.page_number].content) :
                   /\ e.kind = "add_annotation"
                   /\ e.x = request.x[1] /\ e.y = request.y[1]
                   /\ e.w = IF request.width = None THEN 100 ELSE request.width[1]
                   /\ e.h = IF request.height = None THEN 20 ELSE request.height[1]

\* C23: the status endpoint answers "completed" (progress 100) only when the
\* operation of the session had finished successfully; asked for the session
\* while the operation was running it answers "processing"; asked after the
\* operation failed it does not answer "completed".
C23_StatusFollowsOperation ==
    status_info # NoResult =>
       /\ status_info.status = "completed" =>
             /\ status_info.operation = "succeeded"
             /\ status_info.progress = 100
       /\ (status_info.operation = "running" /\ status_info.file_id = "session_id")
             => status_info.status = "processing"
       /\ status_info.operation = "failed" => status_info.status # "completed"

\* the merge request passes the checks of the upload count and names
MergeUploadsValid ==
    /\ Len(request.files) >= 2
    /\ ValidateFileExtension(request.filename)

\* C24: a request rejected by input validation (an upload not named *.pdf,
\* fewer than two files to merge, a merge_order of the wrong length, a
\* missing text or image parameter) is answered with status 400, and a
\* download for a file_id with no stored file with status 404.
C24_ValidationStatus ==
    /\ (/\ pc = "responded"
        /\ \/ ~ValidateFileExtension(request.filename)
           \/ request.endpoint = "merge" /\ Len(request.files) < 2
           \/ /\ request.endpoint = "merge"
              /\ MergeUploadsValid
              /\ MergeOrderError(request) = "400"
           \/ /\ request.endpoint = "edit"
              /\ EditParametersMissing(request))
       => response.status_code = 400
    /\ (/\ pc = "downloaded"
        /\ GetFilePath(session_dir, output_files, request.file_id) = None)
       => response.status_code = 404

\* merge_order names every upload exactly once
IsPermutation(order_indices, n) ==
    /\ Len(order_indices) = n
    /\ \A k \in 0..(n - 1) : \E j \in DOMAIN order_indices : order_indices[j] = k

\* the uploads the pages of a document came from, page by page
PageSources(document) == [k \in DOMAIN document |-> document[k].src]

\* C25: a /merge request of one-page uploads with merge_order is answered with success only
\* when merge_order names every upload exactly once, and the merged file
\* then holds the uploads in exactly that order; any other merge_order
\* (wrong length, a repeated index, an index out of range) is rejected and
\* no merged file is written.
C25_MergeOrderRespected ==
    (/\ ApiAnswered("merge")
     /\ MergeUploadsValid
     /\ \A k \in DOMAIN request.files : Len(request.files[k]) = 1
     /\ request.merge_order # None)
    => IF /\ IntListParses(request.merge_order[1])
          /\ IsPermutation(IntListOf(request.merge_order[1]), Len(request.files))
       THEN response.status_code = 200 =>
               /\ MergedFile \in DOMAIN session_dir
               /\ PageSources(session_dir[MergedFile]) =
                     [k \in 1..Len(request.files) |->
                         IntListOf(request.merge_order[1])[k] + 1]
       ELSE /\ response.status_code # 200
            /\ MergedFile \notin DOMAIN session_dir

\* C26: after a successful split into k >= 1 files, the download with the
\* returned file_id delivers exactly the k split outputs.
C26_DownloadDeliversOutputs ==
    (/\ pc = "downloaded"
     /\ DictGet(result, "success", FALSE) = TRUE
     /\ "output_files" \in DOMAIN result
     /\ Len(result.output_files) >= 1
     /\ request.file_id = result.file_id)
    => /\ response.status_code = 200
       /\ response.files = Range(result.output_files)

\* the endpoints that serve the file of a file_id
ResolvingEndpoints == {"download", "view", "export", "ocr"}

\* the answer serves the PDF that upload stored under file_id, or is 404
\* when upload did not issue file_id
ResolvedRight(dir, req, resp) ==
    IF req.file_id \in IssuedIds(dir)
    THEN /\ resp.status_code # 404
         /\ resp.path # None
         /\ dir[resp.path[1]] = [kind |-> "pdf", file_id |-> req.file_id]
    ELSE resp.status_code = 404

\* C28: whatever was uploaded and annotated before, each answer of the
\* download, view, export and OCR endpoints to a file_id serves the PDF that
\* upload stored under that id, and is 404 when upload did not issue the
\* file_id.
C28_FileIdResolution ==
    [][(/\ DOMAIN request' # {}
        /\ request'.endpoint \in ResolvingEndpoints
        /\ <<request', response'>> # <<request, response>>)
       => ResolvedRight(upload_dir, request', response')]_vars

=============================================================================
